---- MODULE Spec2Model ----
(***************************************************************************)
(* Expense assistant: the Telegram long-polling loop (backend/polling.py), *)
(* the ledger and vector index (backend/storage.py), the amount/category   *)
(* parsers (backend/parsing.py), the extraction client (backend/clients.py)*)
(* and the query parser and service (backend/query).                       *)
(*                                                                         *)
(* Texts are TLA+ strings; amounts are integers in thousandths ("mills"):  *)
(* 2500.00 is 2500000, 0.004 is 4.                                         *)
(***************************************************************************)
EXTENDS Integers, Sequences, FiniteSets, TLC

None == "None"

(***************************************************************************)
(* Strings                                                                 *)
(***************************************************************************)
Ch(s, i) == SubSeq(s, i, i)

Digits == {"0", "1", "2", "3", "4", "5", "6", "7", "8", "9"}

LowerLetters ==
    {"a", "b", "c", "d", "e", "f", "g", "h", "i", "j", "k", "l", "m",
     "n", "o", "p", "q", "r", "s", "t", "u", "v", "w", "x", "y", "z"}

UpperLetters ==
    {"A", "B", "C", "D", "E", "F", "G", "H", "I", "J", "K", "L", "M",
     "N", "O", "P", "Q", "R", "S", "T", "U", "V", "W", "X", "Y", "Z"}

IsDigit(c) == c \in Digits

\* \w of the regular expressions: letters, digits and the underscore.
IsWordChar(c) == c \in Digits \cup LowerLetters \cup UpperLetters \cup {"_"}

IsSep(c) == c \in {",", "."}

DigitVal(c) ==
    CASE c = "0" -> 0 [] c = "1" -> 1 [] c = "2" -> 2 [] c = "3" -> 3
      [] c = "4" -> 4 [] c = "5" -> 5 [] c = "6" -> 6 [] c = "7" -> 7
      [] c = "8" -> 8 [] c = "9" -> 9

DigitChar(d) == Ch("0123456789", d + 1)

\* str.lower() of one character.
LowerChar(c) ==
    CASE c = "A" -> "a" [] c = "B" -> "b" [] c = "C" -> "c" [] c = "D" -> "d"
      [] c = "E" -> "e" [] c = "F" -> "f" [] c = "G" -> "g" [] c = "H" -> "h"
      [] c = "I" -> "i" [] c = "J" -> "j" [] c = "K" -> "k" [] c = "L" -> "l"
      [] c = "M" -> "m" [] c = "N" -> "n" [] c = "O" -> "o" [] c = "P" -> "p"
      [] c = "Q" -> "q" [] c = "R" -> "r" [] c = "S" -> "s" [] c = "T" -> "t"
      [] c = "U" -> "u" [] c = "V" -> "v" [] c = "W" -> "w" [] c = "X" -> "x"
      [] c = "Y" -> "y" [] c = "Z" -> "z" [] OTHER -> c

RECURSIVE MapChars(_, _, _)
\* The string s with kind-of-change k applied to each character:
\* "lower" is str.lower(), "accents" drops the combining mark of a letter.
MapChars(k, s, i) ==
    IF i > Len(s) THEN ""
    ELSE LET c == Ch(s, i)
             d == IF k = "lower" THEN LowerChar(c)
                  ELSE CASE c = "á" -> "a" [] c = "é" -> "e" [] c = "í" -> "i"
                         [] c = "ó" -> "o" [] c = "ú" -> "u" [] OTHER -> c
         IN  d \o MapChars(k, s, i + 1)

Lower(s) == MapChars("lower", s, 1)

\* unicodedata NFD, then every combining mark (category Mn) dropped.
_strip_accents(s) == MapChars("accents", s, 1)

RECURSIVE CollapseFrom(_, _, _)
\* " ".join(text.split()): runs of blanks become one, none at either end.
\* pending is TRUE when a word has been emitted and a blank was seen since.
CollapseFrom(s, i, pending) ==
    IF i > Len(s) THEN ""
    ELSE IF Ch(s, i) = " "
         THEN CollapseFrom(s, i + 1, pending)
         ELSE (IF pending /\ Ch(s, i - 1) = " " THEN " " ELSE "")
              \o Ch(s, i) \o CollapseFrom(s, i + 1, TRUE)

collapse_spaces(s) == CollapseFrom(s, 1, FALSE)

\* Python's `w in s`.
Contains(s, w) ==
    \E i \in 1..(Len(s) - Len(w) + 1) : SubSeq(s, i, i + Len(w) - 1) = w

EndsWith(s, w) ==
    Len(s) >= Len(w) /\ SubSeq(s, Len(s) - Len(w) + 1, Len(s)) = w

\* \b at the gap before position i of s (between s[i-1] and s[i]).
WordBoundary(s, i) ==
    LET before == i > 1 /\ i - 1 <= Len(s) /\ IsWordChar(Ch(s, i - 1))
        after  == i >= 1 /\ i <= Len(s) /\ IsWordChar(Ch(s, i))
    IN  before # after

\* re.search(r"\bw\b", s)
ContainsWord(s, w) ==
    \E i \in 1..(Len(s) - Len(w) + 1) :
        /\ SubSeq(s, i, i + Len(w) - 1) = w
        /\ WordBoundary(s, i)
        /\ WordBoundary(s, i + Len(w))

(***************************************************************************)
(* backend/parsing.py                                                      *)
(***************************************************************************)
\* An optional value (Python's X | None) is a sequence of length 0 or 1.
Nothing == << >>
Some(v) == <<v>>
IsSome(o) == Len(o) = 1
Get(o) == o[1]

\* A Python float: a number of thousandths, or NaN.
F(v) == [nan |-> FALSE, v |-> v]
NaN == [nan |-> TRUE, v |-> 0]

\* A JSON / Python value handed to the parsers: a string, a number or null.
Str(s) == [t |-> "str", s |-> s, f |-> F(0)]
Num(f) == [t |-> "num", s |-> "", f |-> f]
Null == [t |-> "null", s |-> "", f |-> F(0)]

Categories == {"salida", "obligacion", "unclear"}

LeisureWords ==
    {"salida", "salidas", "ocio", "entretenimiento", "recreacion", "recreativo",
     "hobby", "hobbies", "discrecional", "no esencial", "leisure"}

ObligationWords ==
    {"obligacion", "obligaciones", "obligatorio", "obligatoria", "esencial",
     "fijo", "fija", "deuda"}

normalize_category(category) ==
    LET value == _strip_accents(Lower(collapse_spaces(category)))
    IN  IF value \in LeisureWords THEN "salida"
        ELSE IF value \in ObligationWords THEN "obligacion"
        ELSE "unclear"

\* normalize_category(category) for an argument of any type: the result, or
\* the exception raised. collapse_spaces calls category.split(), which only a
\* string has.
normalize_category_any(category) ==
    IF category.t = "str"
    THEN [result |-> normalize_category(category.s), raised |-> ""]
    ELSE [result |-> "", raised |-> "AttributeError"]

RECURSIVE DigitRun(_, _)
\* The number of consecutive digits of s from position i on.
DigitRun(s, i) ==
    IF i >= 1 /\ i <= Len(s) /\ IsDigit(Ch(s, i)) THEN 1 + DigitRun(s, i + 1) ELSE 0

IsSepAt(s, i) == i >= 1 /\ i <= Len(s) /\ IsSep(Ch(s, i))

RECURSIVE SpaceRun(_, _)
SpaceRun(s, i) ==
    IF i >= 1 /\ i <= Len(s) /\ Ch(s, i) = " " THEN 1 + SpaceRun(s, i + 1) ELSE 0

\* \s*(mil|k)\b matched at position p: the position after the match, 0 if none.
MultiplierEnd(s, p) ==
    LET j == p + SpaceRun(s, p)
    IN  IF j + 2 <= Len(s) /\ SubSeq(s, j, j + 2) = "mil" /\ WordBoundary(s, j + 3)
        THEN j + 3
        ELSE IF j <= Len(s) /\ Ch(s, j) = "k" /\ WordBoundary(s, j + 1)
        THEN j + 1
        ELSE 0

\* (?<=\d)\s*(mil|k)\b matched at position i.
MultiplierAt(s, i) ==
    IF i > 1 /\ IsDigit(Ch(s, i - 1)) THEN MultiplierEnd(s, i) ELSE 0

HasMultiplier(s) == \E i \in 1..Len(s) : MultiplierAt(s, i) > 0

RECURSIVE RemoveMultiplier(_, _)
RemoveMultiplier(s, i) ==
    IF i > Len(s) THEN ""
    ELSE IF MultiplierAt(s, i) > 0 THEN RemoveMultiplier(s, MultiplierAt(s, i))
    ELSE Ch(s, i) \o RemoveMultiplier(s, i + 1)

CurrencyWords == {"ars", "usd", "peso", "pesos", "dolar", "dolares"}

\* \b(ars|usd|peso|pesos|dolar|dolares)\b matched at position i: the position
\* after the match, 0 if none.
CurrencyAt(s, i) ==
    LET hits == {w \in CurrencyWords :
                    /\ i + Len(w) - 1 <= Len(s)
                    /\ SubSeq(s, i, i + Len(w) - 1) = w
                    /\ WordBoundary(s, i)
                    /\ WordBoundary(s, i + Len(w))}
    IN  IF hits = {} THEN 0 ELSE i + Len(CHOOSE w \in hits : TRUE)

RECURSIVE RemoveCurrency(_, _)
RemoveCurrency(s, i) ==
    IF i > Len(s) THEN ""
    ELSE IF CurrencyAt(s, i) > 0 THEN RemoveCurrency(s, CurrencyAt(s, i))
    ELSE Ch(s, i) \o RemoveCurrency(s, i + 1)

RECURSIVE KeepAmountChars(_, _)
\* re.sub(r"[^\d,.\-]", "", s)
KeepAmountChars(s, i) ==
    IF i > Len(s) THEN ""
    ELSE (IF Ch(s, i) \in Digits \cup {",", ".", "-"} THEN Ch(s, i) ELSE "")
         \o KeepAmountChars(s, i + 1)

RECURSIVE ReplaceChar(_, _, _, _)
\* s.replace(c, d) for a one-character c and a d of length 0 or 1.
ReplaceChar(s, c, d, i) ==
    IF i > Len(s) THEN ""
    ELSE (IF Ch(s, i) = c THEN d ELSE Ch(s, i)) \o ReplaceChar(s, c, d, i + 1)

RECURSIVE CountChar(_, _, _)
CountChar(s, c, i) ==
    IF i > Len(s) THEN 0
    ELSE (IF Ch(s, i) = c THEN 1 ELSE 0) + CountChar(s, c, i + 1)

\* s.rfind(c), 1-based; 0 when c is not in s.
RFind(s, c) ==
    IF \E i \in 1..Len(s) : Ch(s, i) = c
    THEN CHOOSE i \in 1..Len(s) :
            Ch(s, i) = c /\ \A j \in (i + 1)..Len(s) : Ch(s, j) # c
    ELSE 0

\* The separator rules with a lone separator always taken for the decimal
\* point.
ResolveSeparators_lone_decimal(amount) ==
    LET has_comma == CountChar(amount, ",", 1) > 0
        has_dot   == CountChar(amount, ".", 1) > 0
    IN  IF has_comma /\ has_dot
        THEN IF RFind(amount, ",") > RFind(amount, ".")
             THEN ReplaceChar(ReplaceChar(amount, ".", "", 1), ",", ".", 1)
             ELSE ReplaceChar(amount, ",", "", 1)
        ELSE IF has_comma
        THEN IF CountChar(amount, ",", 1) = 1 THEN ReplaceChar(amount, ",", ".", 1)
             ELSE ReplaceChar(amount, ",", "", 1)
        ELSE IF has_dot
        THEN IF CountChar(amount, ".", 1) = 1 THEN amount
             ELSE ReplaceChar(amount, ".", "", 1)
        ELSE amount

\* The separator rules with the comma always taken for the decimal point.
ResolveSeparators_comma_decimal(amount) ==
    IF CountChar(amount, ",", 1) > 0
    THEN ReplaceChar(ReplaceChar(amount, ".", "", 1), ",", ".", 1)
    ELSE amount

\* The separator rules of normalize_amount: the text that is handed to float().
ResolveSeparators(amount) ==
    LET has_comma == CountChar(amount, ",", 1) > 0
        has_dot   == CountChar(amount, ".", 1) > 0
        OneSep(c) ==
            LET at == RFind(amount, c)
                integer_part  == at - 1
                fraction_part == Len(amount) - at
            IN  IF fraction_part <= 2 THEN ReplaceChar(amount, c, ".", 1)
                ELSE IF fraction_part = 3 /\ integer_part <= 3
                THEN ReplaceChar(amount, c, "", 1)
                ELSE ReplaceChar(amount, c, ".", 1)
    IN  IF has_comma /\ has_dot
        THEN IF RFind(amount, ",") > RFind(amount, ".")
             THEN ReplaceChar(ReplaceChar(amount, ".", "", 1), ",", ".", 1)
             ELSE ReplaceChar(amount, ",", "", 1)
        ELSE IF has_comma
        THEN IF CountChar(amount, ",", 1) = 1 THEN OneSep(",")
             ELSE ReplaceChar(amount, ",", "", 1)
        ELSE IF has_dot
        THEN IF CountChar(amount, ".", 1) = 1 THEN OneSep(".")
             ELSE ReplaceChar(amount, ".", "", 1)
        ELSE amount

RECURSIVE DigitsValue(_, _, _)
\* The value of the digits s[i..j] read as a decimal numeral.
DigitsValue(s, i, j) ==
    IF j < i THEN 0 ELSE DigitsValue(s, i, j - 1) * 10 + DigitVal(Ch(s, j))

\* float(s) for a text of digits, '.' and '-': the value in thousandths, or
\* Nothing where float() raises ValueError. Digits after the third decimal
\* place are below the model's resolution and dropped.
ParseFloat(s) ==
    LET neg  == Len(s) >= 1 /\ Ch(s, 1) = "-"
        b    == IF neg THEN 2 ELSE 1
        n    == DigitRun(s, b)
        dot  == b + n <= Len(s) /\ Ch(s, b + n) = "."
        m    == IF dot THEN DigitRun(s, b + n + 1) ELSE 0
        stop == b + n + (IF dot THEN 1 + m ELSE 0)
        k    == IF m > 3 THEN 3 ELSE m
        frac == DigitsValue(s, b + n + 1, b + n + k)
                * (CASE k = 0 -> 1 [] k = 1 -> 100 [] k = 2 -> 10 [] k = 3 -> 1)
        v    == DigitsValue(s, b, b + n - 1) * 1000 + frac
    IN  IF stop = Len(s) + 1 /\ n + m >= 1
        THEN Some(IF neg THEN 0 - v ELSE v)
        ELSE Nothing

\* round(x, 2) of a value in thousandths. A value exactly half way between
\* two hundredths is rounded by its binary representation in Python; the
\* model's inputs hold no such value.
Round2(v) == ((v + 5) \div 10) * 10

normalize_amount_str(text) ==
    LET raw0 == _strip_accents(Lower(collapse_spaces(text)))
        multiplier == IF HasMultiplier(raw0) THEN 1000 ELSE 1
        raw1 == IF HasMultiplier(raw0) THEN RemoveMultiplier(raw0, 1) ELSE raw0
        raw2 == RemoveCurrency(raw1, 1)
        amount == KeepAmountChars(raw2, 1)
        parsed == ParseFloat(ResolveSeparators(amount))
    IN  IF amount \in {"", "-", ".", ","} THEN Nothing
        ELSE IF ~IsSome(parsed) THEN Nothing
        ELSE IF Get(parsed) * multiplier <= 0 THEN Nothing
        ELSE Some(F(Round2(Get(parsed) * multiplier)))

\* normalize_amount: a float (possibly NaN) or Nothing. NaN <= 0 is false
\* and round(NaN, 2) is NaN, so a NaN input comes back as NaN.
normalize_amount(amount) ==
    IF amount.t = "str" THEN normalize_amount_str(amount.s)
    ELSE IF amount.t = "num"
    THEN IF amount.f.nan THEN Some(NaN)
         ELSE IF amount.f.v <= 0 THEN Nothing
         ELSE Some(F(Round2(amount.f.v)))
    ELSE Nothing

\* normalize_expense(category, amount): category is a string or null.
normalize_expense(category, amount) ==
    IF amount.t = "null" THEN Nothing
    ELSE IF ~IsSome(normalize_amount(amount)) THEN Nothing
    ELSE Some([category |-> normalize_category(
                               IF category.t = "str" /\ category.s # ""
                               THEN category.s ELSE "unclear"),
               amount |-> Get(normalize_amount(amount))])

\* \d{1,3}(?:[.,]\d{3})+ matched at position i: the position after the last
\* group of three digits, 0 if the pattern does not match there.
RECURSIVE GroupsEnd(_, _)
GroupsEnd(s, p) ==
    IF IsSepAt(s, p) /\ DigitRun(s, p + 1) >= 3 THEN GroupsEnd(s, p + 4) ELSE p

\* (?:[.,]\d+)? matched at position p: the position after it.
TailEnd(s, p) ==
    IF IsSepAt(s, p) /\ DigitRun(s, p + 1) >= 1 THEN p + 1 + DigitRun(s, p + 1) ELSE p

\* \d{1,3}(?:[.,]\d{3})+(?:[.,]\d+)? at position i; 0 if none.
GroupedNumberEnd(s, i) ==
    LET r == DigitRun(s, i)
    IN  IF r >= 1 /\ r <= 3 /\ GroupsEnd(s, i + r) > i + r
        THEN TailEnd(s, GroupsEnd(s, i + r))
        ELSE 0

\* \d+(?:[.,]\d+)? at position i; 0 if none.
PlainNumberEnd(s, i) ==
    IF DigitRun(s, i) >= 1 THEN TailEnd(s, i + DigitRun(s, i)) ELSE 0

\* The number pattern of extract_explicit_amount at position i: the first
\* alternative that matches.
NumberEnd(s, i) ==
    IF GroupedNumberEnd(s, i) > 0 THEN GroupedNumberEnd(s, i) ELSE PlainNumberEnd(s, i)

\* The same with the multiplier word required after the number. A shorter
\* number never helps: what follows it is then a digit or a separator.
MilNumberEnd(s, i) ==
    IF GroupedNumberEnd(s, i) > 0 /\ MultiplierEnd(s, GroupedNumberEnd(s, i)) > 0
    THEN MultiplierEnd(s, GroupedNumberEnd(s, i))
    ELSE IF PlainNumberEnd(s, i) > 0 /\ MultiplierEnd(s, PlainNumberEnd(s, i)) > 0
    THEN MultiplierEnd(s, PlainNumberEnd(s, i))
    ELSE 0

RECURSIVE NumberTokens(_, _)
\* re.findall of the number pattern: the matches from left to right.
NumberTokens(s, i) ==
    IF i > Len(s) THEN << >>
    ELSE IF NumberEnd(s, i) > 0
    THEN <<SubSeq(s, i, NumberEnd(s, i) - 1)>> \o NumberTokens(s, NumberEnd(s, i))
    ELSE NumberTokens(s, i + 1)

\* mil_matches[0]: the leftmost match of the multiplier pattern, if any.
FirstMilToken(s) ==
    IF \E i \in 1..Len(s) : MilNumberEnd(s, i) > 0
    THEN LET i == CHOOSE i \in 1..Len(s) :
                     MilNumberEnd(s, i) > 0 /\ \A j \in 1..(i - 1) : MilNumberEnd(s, j) = 0
         IN  Some(SubSeq(s, i, MilNumberEnd(s, i) - 1))
    ELSE Nothing

\* The larger of two optional amounts.
LargerAmount(here, rest) ==
    IF ~IsSome(here) THEN rest
    ELSE IF ~IsSome(rest) THEN here
    ELSE IF Get(rest).v > Get(here).v THEN rest ELSE here

RECURSIVE MaxAmount(_, _)
\* max() of the amounts that parse among tokens[i..]; Nothing if none does.
MaxAmount(tokens, i) ==
    IF i > Len(tokens) THEN Nothing
    ELSE LargerAmount(normalize_amount_str(tokens[i]), MaxAmount(tokens, i + 1))

\* normalize_amount(mil_matches[0]) if there is such a match.
ParsedMil(mil) == IF IsSome(mil) THEN normalize_amount_str(Get(mil)) ELSE Nothing

\* Lines 131-140: the first mil match if it parses, else the largest number.
ExplicitAmountOf(compact, parsed_mil) ==
    IF IsSome(parsed_mil) THEN parsed_mil
    ELSE MaxAmount(NumberTokens(compact, 1), 1)

ExplicitAmountIn(compact) == ExplicitAmountOf(compact, ParsedMil(FirstMilToken(compact)))

extract_explicit_amount(text) ==
    ExplicitAmountIn(_strip_accents(Lower(collapse_spaces(text))))

(***************************************************************************)
(* backend/clients.py                                                      *)
(***************************************************************************)
\* What the generation service sent back, after _parse_json_like_response
\* and _first_present: kind "raise" (post_json failed), "nonstring" (no
\* string under "response"), "unparseable" (no JSON object found) or
\* "object" with the values found under the category and amount keys.
LlmAnswer(kind, category, amount) ==
    [kind |-> kind, category |-> category, amount |-> amount]

Expense(category, amount) == [category |-> category, amount |-> amount]

\* call_ollama_extract once the response has arrived (kind # "raise").
\* Lines 167-198, with normalized = normalize_expense(raw_category,
\* raw_amount) and explicit = extract_explicit_amount(text).
ExtractedExpense(answer, normalized, explicit) ==
    IF answer.kind = "nonstring" THEN Nothing
    ELSE IF answer.kind = "unparseable"
    THEN IF ~IsSome(explicit) THEN Nothing
         ELSE Some(Expense("unclear", Get(explicit)))
    ELSE IF IsSome(normalized) THEN normalized
    ELSE IF ~IsSome(explicit) THEN Nothing
    ELSE Some(Expense(IF answer.category.t = "str"
                      THEN normalize_category(answer.category.s)
                      ELSE "unclear",
                      Get(explicit)))

call_ollama_extract(text, answer) ==
    ExtractedExpense(answer, normalize_expense(answer.category, answer.amount),
                     extract_explicit_amount(text))

(***************************************************************************)
(* backend/tuning.py: the defaults. Ratios are in hundredths.              *)
(***************************************************************************)
SIMILAR_EXAMPLES_LIMIT == 3
NEIGHBOR_PRIOR_TOP_K == SIMILAR_EXAMPLES_LIMIT
NEIGHBOR_PRIOR_MIN_CONSIDERED_UNCLEAR == 2
NEIGHBOR_PRIOR_RATIO_UNCLEAR == 60
NEIGHBOR_PRIOR_MIN_CONSIDERED_OVERRIDE == 3
NEIGHBOR_PRIOR_RATIO_OVERRIDE == 80

(***************************************************************************)
(* backend/polling.py: the neighbor prior                                  *)
(***************************************************************************)
\* A retrieved example carries the category of its vector entry's metadata:
\* a string, or the value None when the entry has no "categoria".
RECURSIVE Votes(_, _, _)
\* votes[c] after the first n examples: how many of them normalize to c.
Votes(similar_examples, n, c) ==
    IF n = 0 THEN 0
    ELSE Votes(similar_examples, n - 1, c)
         + (IF similar_examples[n].category # None
               /\ normalize_category(similar_examples[n].category) = c
            THEN 1 ELSE 0)

\* The position at which category c entered the votes dict (0: never).
FirstVote(similar_examples, n, c) ==
    IF Votes(similar_examples, n, c) = 0 THEN 0
    ELSE CHOOSE i \in 1..n :
            /\ Votes(similar_examples, i, c) = 1
            /\ Votes(similar_examples, i - 1, c) = 0

\* _neighbor_majority with max() keeping the last of the largest counts.
_neighbor_majority_last_tie(similar_examples) ==
    LET n == IF Len(similar_examples) < NEIGHBOR_PRIOR_TOP_K
             THEN Len(similar_examples) ELSE NEIGHBOR_PRIOR_TOP_K
        V(c) == Votes(similar_examples, n, c)
        considered == V("salida") + V("obligacion") + V("unclear")
        best == CHOOSE c \in Categories :
                   /\ V(c) > 0
                   /\ \A d \in Categories :
                        \/ V(d) < V(c)
                        \/ /\ V(d) = V(c)
                           /\ FirstVote(similar_examples, n, c)
                                >= FirstVote(similar_examples, n, d)
    IN  IF considered = 0
        THEN [dominant |-> None, count |-> 0, considered |-> 0]
        ELSE [dominant |-> best, count |-> V(best), considered |-> considered]

\* _neighbor_majority: dominant category (None if no example counts), the
\* dominant count and the number considered. max() over the dict's items
\* keeps the first of the largest counts in insertion order.
_neighbor_majority(similar_examples) ==
    LET n == IF Len(similar_examples) < NEIGHBOR_PRIOR_TOP_K
             THEN Len(similar_examples) ELSE NEIGHBOR_PRIOR_TOP_K
        V(c) == Votes(similar_examples, n, c)
        considered == V("salida") + V("obligacion") + V("unclear")
        best == CHOOSE c \in Categories :
                   /\ V(c) > 0
                   /\ \A d \in Categories :
                        \/ V(d) < V(c)
                        \/ /\ V(d) = V(c)
                           /\ FirstVote(similar_examples, n, c)
                                <= FirstVote(similar_examples, n, d)
    IN  IF considered = 0
        THEN [dominant |-> None, count |-> 0, considered |-> 0]
        ELSE [dominant |-> best, count |-> V(best), considered |-> considered]

\* _apply_neighbor_prior on an expense that is present; ratios are compared
\* as count * 100 >= threshold * considered.
\* Lines 114-145, with m = _neighbor_majority(similar_examples).
AdjustedByMajority(expense, current_category, m) ==
    LET should_adjust ==
            \/ /\ current_category = "unclear"
               /\ m.considered >= NEIGHBOR_PRIOR_MIN_CONSIDERED_UNCLEAR
               /\ m.count * 100 >= NEIGHBOR_PRIOR_RATIO_UNCLEAR * m.considered
            \/ /\ current_category # m.dominant
               /\ m.considered >= NEIGHBOR_PRIOR_MIN_CONSIDERED_OVERRIDE
               /\ m.count * 100 >= NEIGHBOR_PRIOR_RATIO_OVERRIDE * m.considered
    IN  IF m.dominant = None \/ m.dominant = "unclear" THEN expense
        ELSE IF ~should_adjust THEN expense
        ELSE [expense EXCEPT !.category = m.dominant]

\* _apply_neighbor_prior without the test for an unclear dominant category.
\* _apply_neighbor_prior with the first test lost: an unclear category is
\* overridden under the thresholds of the second test only.
AdjustedByOverrideOnly(expense, current_category, m) ==
    IF m.dominant = None \/ m.dominant = "unclear" THEN expense
    ELSE IF /\ current_category # m.dominant
            /\ m.considered >= NEIGHBOR_PRIOR_MIN_CONSIDERED_OVERRIDE
            /\ m.count * 100 >= NEIGHBOR_PRIOR_RATIO_OVERRIDE * m.considered
    THEN [expense EXCEPT !.category = m.dominant]
    ELSE expense

_apply_neighbor_prior_override_only(expense, similar_examples) ==
    AdjustedByOverrideOnly(expense, normalize_category(expense.category),
                           _neighbor_majority(similar_examples))

AdjustedByAnyMajority(expense, current_category, m) ==
    IF m.dominant = None THEN expense
    ELSE IF \/ /\ current_category = "unclear"
               /\ m.considered >= NEIGHBOR_PRIOR_MIN_CONSIDERED_UNCLEAR
               /\ m.count * 100 >= NEIGHBOR_PRIOR_RATIO_UNCLEAR * m.considered
            \/ /\ current_category # m.dominant
               /\ m.considered >= NEIGHBOR_PRIOR_MIN_CONSIDERED_OVERRIDE
               /\ m.count * 100 >= NEIGHBOR_PRIOR_RATIO_OVERRIDE * m.considered
    THEN [expense EXCEPT !.category = m.dominant]
    ELSE expense

_apply_neighbor_prior_any_dominant(expense, similar_examples) ==
    AdjustedByAnyMajority(expense, normalize_category(expense.category),
                          _neighbor_majority(similar_examples))

_apply_neighbor_prior(expense, similar_examples) ==
    AdjustedByMajority(expense, normalize_category(expense.category),
                       _neighbor_majority(similar_examples))

(***************************************************************************)
(* backend/query/parser.py                                                 *)
(***************************************************************************)
\* MONTH_MAP in its insertion order, and the numbers the names map to.
MONTH_NAMES ==
    <<"enero", "febrero", "marzo", "abril", "mayo", "junio", "julio", "agosto",
      "septiembre", "setiembre", "octubre", "noviembre", "diciembre">>

MONTH_NUMBERS == <<1, 2, 3, 4, 5, 6, 7, 8, 9, 9, 10, 11, 12>>

_normalize_text(text) == collapse_spaces(_strip_accents(Lower(text)))

\* The first month of MONTH_MAP (in the map's order) that the text names.
_extract_month(text) ==
    LET found == {i \in 1..Len(MONTH_NAMES) : ContainsWord(text, MONTH_NAMES[i])}
    IN  IF found = {} THEN Nothing
        ELSE Some(MONTH_NUMBERS[CHOOSE i \in found : \A j \in found : i <= j])

\* \b(20\d{2})\b at position i.
YearAt(text, i) ==
    /\ i + 3 <= Len(text)
    /\ SubSeq(text, i, i + 1) = "20"
    /\ IsDigit(Ch(text, i + 2))
    /\ IsDigit(Ch(text, i + 3))
    /\ WordBoundary(text, i)
    /\ WordBoundary(text, i + 4)

_extract_year(text) ==
    LET found == {i \in 1..Len(text) : YearAt(text, i)}
    IN  IF found = {} THEN Nothing
        ELSE LET i == CHOOSE i \in found : \A j \in found : i <= j
             IN  Some(DigitsValue(text, i, i + 3))

_extract_categories(text) ==
    LET categories ==
            (IF ContainsWord(text, "salida") \/ ContainsWord(text, "salidas")
             THEN <<"salida">> ELSE << >>)
            \o (IF ContainsWord(text, "obligacion") \/ ContainsWord(text, "obligaciones")
                THEN <<"obligacion">> ELSE << >>)
            \o (IF \/ ContainsWord(text, "unclear")
                   \/ ContainsWord(text, "otro")
                   \/ ContainsWord(text, "otros")
                THEN <<"unclear">> ELSE << >>)
    IN  IF categories = << >> THEN Nothing ELSE Some(categories)

ANALYSIS_WORDS ==
    {"cuanto", "cuanta", "cual", "cuando", "total", "maximo", "max", "suma", "sumar"}

ANALYSIS_PHRASES == {"cada cosa", "por categoria", "por categorias", "desglose"}

EXPENSE_CONTEXT_WORDS ==
    {"gasto", "gaste", "gastado", "gastos", "salida", "salidas", "obligacion",
     "obligaciones", "unclear", "otro", "otros"}

\* _is_query_candidate without its first test: expense entries are not
\* told apart from queries.
_is_query_candidate_ungated(text) ==
    /\ \/ \E w \in ANALYSIS_WORDS \cup ANALYSIS_PHRASES : Contains(text, w)
       \/ EndsWith(text, "?")
    /\ \/ \E w \in EXPENSE_CONTEXT_WORDS : Contains(text, w)
       \/ Contains(text, "mes pasado") \/ Contains(text, "este mes")
       \/ IsSome(_extract_month(text))

_is_query_candidate(text) ==
    LET has_analysis_hint ==
            \E w \in ANALYSIS_WORDS \cup ANALYSIS_PHRASES : Contains(text, w)
        has_question_mark == EndsWith(text, "?")
        has_relative_month_hint ==
            Contains(text, "mes pasado") \/ Contains(text, "este mes")
        has_month_hint == has_relative_month_hint \/ IsSome(_extract_month(text))
        has_expense_context == \E w \in EXPENSE_CONTEXT_WORDS : Contains(text, w)
    IN  IF Contains(text, "tipo de gasto") /\ Contains(text, "gasto") THEN FALSE
        ELSE /\ has_analysis_hint \/ has_question_mark
             /\ has_expense_context \/ has_month_hint

\* now is the current month and year in the configured timezone.
_previous_month_year(now) ==
    IF now.month = 1 THEN [month |-> 12, year |-> now.year - 1]
    ELSE [month |-> now.month - 1, year |-> now.year]

QueryIntent(operation, month, year, categories) ==
    [operation |-> operation, month |-> month, year |-> year,
     categories |-> categories]

parse_query_intent(text, now) ==
    LET normalized == _normalize_text(text)
        my == IF Contains(normalized, "mes pasado")
              THEN [month |-> Some(_previous_month_year(now).month),
                    year |-> Some(_previous_month_year(now).year)]
              ELSE IF Contains(normalized, "este mes")
              THEN [month |-> Some(now.month), year |-> Some(now.year)]
              ELSE [month |-> _extract_month(normalized),
                    year |-> _extract_year(normalized)]
        operation == IF Contains(normalized, "maximo") \/ ContainsWord(normalized, "max")
                     THEN "max" ELSE "sum"
    IN  IF ~_is_query_candidate(normalized) THEN Nothing
        ELSE Some(QueryIntent(operation, my.month, my.year,
                              _extract_categories(normalized)))

(***************************************************************************)
(* backend/storage.py                                                      *)
(***************************************************************************)
RECURSIVE IntToStr(_)
\* str(n) for n >= 0.
IntToStr(n) == IF n < 10 THEN DigitChar(n) ELSE IntToStr(n \div 10) \o DigitChar(n % 10)

RECURSIVE ZeroPad(_, _)
\* f"{n:0wd}"
ZeroPad(text, w) == IF Len(text) >= w THEN text ELSE ZeroPad("0" \o text, w)

IsAllDigits(text) == Len(text) >= 1 /\ DigitRun(text, 1) = Len(text)

\* save_offset writing the id after the one it is given.
\* save_offset writing the id of the update itself.
save_offset_behind(offset) == IntToStr(offset - 1)

save_offset_ahead(offset) == IntToStr(offset + 1)

\* save_offset writes str(offset); the file's text is the state.
save_offset(offset) == IntToStr(offset)

\* load_offset: no file or an empty one gives None, as does a text int() rejects.
load_offset(content) ==
    LET raw_value == collapse_spaces(content)
    IN  IF raw_value = "" THEN Nothing
        ELSE IF IsAllDigits(raw_value) THEN Some(DigitsValue(raw_value, 1, Len(raw_value)))
        ELSE Nothing

\* datetime.fromisoformat(occurred_at): the year and the month of the timestamp.
OccurredYear(occurred_at) == DigitsValue(occurred_at, 1, 4)
OccurredMonth(occurred_at) == DigitsValue(occurred_at, 6, 7)

\* occurred_dt.strftime("%Y-%m")
MonthKey(occurred_at) ==
    ZeroPad(IntToStr(OccurredYear(occurred_at)), 4) \o "-"
    \o ZeroPad(IntToStr(OccurredMonth(occurred_at)), 2)

\* The rows of table expenses with the given update_id.
RowsOf(rows, update_id) == {i \in 1..Len(rows) : rows[i].update_id = update_id}

\* Where an outcome has a field raised, it is the name of the exception the
\* call raised, "" if it returned.

\* _insert_expense. e holds the column values; db_ok is FALSE when SQLite
\* fails the statement (sqlite3.OperationalError: locked, disk, I/O). A NaN
\* amount is bound as NULL and violates NOT NULL; a duplicate update_id
\* violates UNIQUE: both raise IntegrityError, which is answered with the
\* existing row of that update_id and re-raised if there is none. The id is
\* the AUTOINCREMENT rowid: rows are never deleted, so it is the row count + 1.
InsertOutcome(rows, expense_id, inserted, raised) ==
    [rows |-> rows, expense_id |-> expense_id, inserted |-> inserted, raised |-> raised]

\* _insert_expense on a table without UNIQUE(update_id): every call that
\* SQLite accepts inserts.
_insert_expense_not_unique(rows, e, db_ok) ==
    IF ~db_ok THEN InsertOutcome(rows, 0, FALSE, "OperationalError")
    ELSE IF e.amount.nan THEN InsertOutcome(rows, 0, FALSE, "IntegrityError")
    ELSE InsertOutcome(
            Append(rows, [id |-> Len(rows) + 1, update_id |-> e.update_id,
                          chat_id |-> e.chat_id, categoria |-> e.category,
                          monto |-> e.amount.v, currency |-> e.currency,
                          occurred_at |-> e.occurred_at, month_key |-> e.month_key,
                          raw_text |-> e.raw_text, source |-> e.source]),
            Len(rows) + 1, TRUE, "")

\* _insert_expense with INSERT OR REPLACE: on a duplicate update_id the
\* columns of the existing row are overwritten.
_insert_expense_or_replace(rows, e, db_ok) ==
    IF ~db_ok THEN InsertOutcome(rows, 0, FALSE, "OperationalError")
    ELSE IF e.amount.nan THEN InsertOutcome(rows, 0, FALSE, "IntegrityError")
    ELSE IF RowsOf(rows, e.update_id) # {}
    THEN LET i == CHOOSE i \in RowsOf(rows, e.update_id) : TRUE
         IN  InsertOutcome(
                [rows EXCEPT ![i] = [id |-> rows[i].id, update_id |-> e.update_id,
                                     chat_id |-> e.chat_id, categoria |-> e.category,
                                     monto |-> e.amount.v, currency |-> e.currency,
                                     occurred_at |-> e.occurred_at,
                                     month_key |-> e.month_key,
                                     raw_text |-> e.raw_text, source |-> e.source]],
                rows[i].id, FALSE, "")
    ELSE InsertOutcome(
            Append(rows, [id |-> Len(rows) + 1, update_id |-> e.update_id,
                          chat_id |-> e.chat_id, categoria |-> e.category,
                          monto |-> e.amount.v, currency |-> e.currency,
                          occurred_at |-> e.occurred_at, month_key |-> e.month_key,
                          raw_text |-> e.raw_text, source |-> e.source]),
            Len(rows) + 1, TRUE, "")

_insert_expense(rows, e, db_ok) ==
    IF ~db_ok THEN InsertOutcome(rows, 0, FALSE, "OperationalError")
    ELSE IF e.amount.nan \/ RowsOf(rows, e.update_id) # {}
    THEN IF RowsOf(rows, e.update_id) = {}
         THEN InsertOutcome(rows, 0, FALSE, "IntegrityError")
         ELSE InsertOutcome(rows,
                            rows[CHOOSE i \in RowsOf(rows, e.update_id) : TRUE].id,
                            FALSE, "")
    ELSE InsertOutcome(
            Append(rows, [id |-> Len(rows) + 1,
                          update_id |-> e.update_id,
                          chat_id |-> e.chat_id,
                          categoria |-> e.category,
                          monto |-> e.amount.v,
                          currency |-> e.currency,
                          occurred_at |-> e.occurred_at,
                          month_key |-> e.month_key,
                          raw_text |-> e.raw_text,
                          source |-> e.source]),
            Len(rows) + 1, TRUE, "")

DEFAULT_CURRENCY == "ARS"

\* The keyword arguments of _upsert_vector_background, as submitted.
VectorTask(expense_id, a, month_key) ==
    [expense_id |-> expense_id, chat_id |-> a.chat_id, category |-> a.category,
     amount |-> a.amount, currency |-> DEFAULT_CURRENCY,
     occurred_at |-> a.occurred_at, month_key |-> month_key,
     source |-> a.source, raw_text |-> a.raw_text]

StoreResult(status, reason, expense_id, inserted, vector_status, month_key) ==
    [status |-> status, reason |-> reason, expense_id |-> expense_id,
     inserted |-> inserted, vector_status |-> vector_status,
     month_key |-> month_key, currency |-> DEFAULT_CURRENCY]

StoreOutcome(rows, queue, result, raised) ==
    [rows |-> rows, queue |-> queue, result |-> result, raised |-> raised]

\* store_expense(update_id, chat_id, category, amount, occurred_at, raw_text,
\* source) on the table rows and the executor's queue. env.db_ok is SQLite's
\* outcome and env.submit_ok the executor's (submit raises RuntimeError when
\* no thread can be started). The task is submitted whether or not the row
\* was inserted.
store_expense(rows, queue, a, env) ==
    LET month_key == MonthKey(a.occurred_at)
        ins == _insert_expense(rows,
                               [update_id |-> a.update_id, chat_id |-> a.chat_id,
                                category |-> a.category, amount |-> a.amount,
                                currency |-> DEFAULT_CURRENCY,
                                occurred_at |-> a.occurred_at,
                                month_key |-> month_key,
                                raw_text |-> a.raw_text, source |-> a.source],
                               env.db_ok)
    IN  IF a.chat_id = None
        THEN StoreOutcome(rows, queue,
                          StoreResult("skipped", "missing_chat_id", 0, FALSE, "", ""),
                          "")
        ELSE IF ins.raised # ""
        THEN StoreOutcome(rows, queue, StoreResult("", "", 0, FALSE, "", ""), ins.raised)
        ELSE StoreOutcome(
                ins.rows,
                IF env.submit_ok
                THEN Append(queue, VectorTask(ins.expense_id, a, month_key))
                ELSE queue,
                StoreResult("stored", "", ins.expense_id, ins.inserted,
                            IF env.submit_ok THEN "queued" ELSE "error", month_key),
                "")

\* One entry of the Chroma collection: its id and its metadata (the document
\* is represented by its raw_text part).
VectorEntry(t) ==
    [id |-> t.expense_id, chat_id |-> t.chat_id, categoria |-> t.category,
     monto |-> t.amount.v, currency |-> t.currency,
     mes |-> OccurredMonth(t.occurred_at), year |-> OccurredYear(t.occurred_at),
     month_key |-> t.month_key, source |-> t.source, raw_text |-> t.raw_text]

UpsertOutcome(entries, raised) == [entries |-> entries, raised |-> raised]

\* _upsert_vector: the embedding call, then collection.upsert, which replaces
\* the entry of the same id. Either call may raise.
_upsert_vector(entries, t, env) ==
    IF ~env.embed_ok THEN UpsertOutcome(entries, "EmbeddingError")
    ELSE IF ~env.index_ok THEN UpsertOutcome(entries, "VectorIndexError")
    ELSE UpsertOutcome({v \in entries : v.id # t.expense_id} \cup {VectorEntry(t)},
                       "")

\* _upsert_vector_background without its try/except: what _upsert_vector
\* raises leaves the task unlogged.
_upsert_vector_background_unguarded(entries, t, env) ==
    [entries |-> _upsert_vector(entries, t, env).entries,
     logged  |-> FALSE,
     raised  |-> _upsert_vector(entries, t, env).raised]

\* _upsert_vector_background: whatever _upsert_vector raises is logged.
_upsert_vector_background(entries, t, env) ==
    [entries |-> _upsert_vector(entries, t, env).entries,
     logged  |-> _upsert_vector(entries, t, env).raised # "",
     raised  |-> ""]

SimilarExample(v) ==
    [category |-> v.categoria, amount |-> v.monto, month_key |-> v.month_key,
     raw_text |-> v.raw_text]

RECURSIVE ScopedExamples(_, _, _, _)
\* The entries of order[i..] whose metadata chat_id is chat_id, at most n.
ScopedExamples(order, i, chat_id, n) ==
    IF i > Len(order) \/ n = 0 THEN << >>
    ELSE IF order[i].chat_id = chat_id
    THEN <<SimilarExample(order[i])>> \o ScopedExamples(order, i + 1, chat_id, n - 1)
    ELSE ScopedExamples(order, i + 1, chat_id, n)

RetrieveOutcome(items, raised, called) ==
    [items |-> items, raised |-> raised, called |-> called]

\* retrieve_similar_expenses without its two early returns.
retrieve_similar_expenses_unchecked(order, chat_id, text, n_results, env) ==
    IF ~env.embed_ok THEN RetrieveOutcome(<< >>, "EmbeddingError", TRUE)
    ELSE IF ~env.index_ok THEN RetrieveOutcome(<< >>, "VectorIndexError", TRUE)
    ELSE RetrieveOutcome(
            ScopedExamples(order, 1, chat_id, IF n_results < 1 THEN 1 ELSE n_results),
            "", TRUE)

\* retrieve_similar_expenses(chat_id, text, n_results). order is the
\* collection sorted by distance to the query embedding (the index's
\* answer); called tells whether the embedding service was called.
retrieve_similar_expenses(order, chat_id, text, n_results, env) ==
    IF chat_id = None THEN RetrieveOutcome(<< >>, "", FALSE)
    ELSE IF collapse_spaces(text) = "" THEN RetrieveOutcome(<< >>, "", FALSE)
    ELSE IF ~env.embed_ok THEN RetrieveOutcome(<< >>, "EmbeddingError", TRUE)
    ELSE IF ~env.index_ok THEN RetrieveOutcome(<< >>, "VectorIndexError", TRUE)
    ELSE RetrieveOutcome(
            ScopedExamples(order, 1, chat_id, IF n_results < 1 THEN 1 ELSE n_results),
            "", TRUE)

(***************************************************************************)
(* backend/formatting.py                                                   *)
(***************************************************************************)
RECURSIVE GroupThousands(_)
\* f"{n:,}" with '.' in place of ',': the digits of n >= 0 in groups of three.
GroupThousands(n) ==
    IF n < 1000 THEN IntToStr(n)
    ELSE GroupThousands(n \div 1000) \o "." \o ZeroPad(IntToStr(n % 1000), 3)

\* format_amount without the thousands separator.
format_amount_ungrouped(amount) ==
    IF (Round2(amount) \div 10) % 100 = 0
    THEN IntToStr((Round2(amount) \div 10) \div 100)
    ELSE IntToStr((Round2(amount) \div 10) \div 100) \o ","
         \o ZeroPad(IntToStr((Round2(amount) \div 10) % 100), 2)

\* format_amount that keeps the decimals of a whole amount.
format_amount_two_decimals(amount) ==
    GroupThousands((Round2(amount) \div 10) \div 100) \o ","
    \o ZeroPad(IntToStr((Round2(amount) \div 10) % 100), 2)

\* format_amount of a value >= 0 in thousandths: rounded to 2 decimals,
\* '.' between thousands, ',' before the decimals, a trailing ",00" dropped.
format_amount(amount) ==
    LET hundredths == Round2(amount) \div 10
        rendered == GroupThousands(hundredths \div 100) \o ","
                    \o ZeroPad(IntToStr(hundredths % 100), 2)
    IN  IF EndsWith(rendered, ",00") THEN SubSeq(rendered, 1, Len(rendered) - 3)
        ELSE rendered

format_money(amount, currency) == format_amount(amount) \o " " \o currency

(***************************************************************************)
(* backend/query/service.py                                                *)
(***************************************************************************)
\* MONTH_NAME_BY_NUMBER: MONTH_MAP inverted without "setiembre".
MonthName(month) ==
    LET names == {i \in 1..Len(MONTH_NAMES) :
                     MONTH_NUMBERS[i] = month /\ MONTH_NAMES[i] # "setiembre"}
    IN  IF names = {} THEN IntToStr(month)
        ELSE MONTH_NAMES[CHOOSE i \in names : TRUE]

\* _resolve_year taking the oldest year (MIN for MAX).
_resolve_year_oldest(rows, chat_id, month, year) ==
    LET years == {DigitsValue(rows[i].month_key, 1, 4) :
                    i \in {j \in 1..Len(rows) :
                             /\ rows[j].chat_id = chat_id
                             /\ SubSeq(rows[j].month_key, 6, 7)
                                  = ZeroPad(IntToStr(month), 2)}}
    IN  IF IsSome(year) THEN year
        ELSE IF years = {} THEN Nothing
        ELSE Some(CHOOSE y \in years : \A z \in years : y <= z)

\* _resolve_year: the given year, else the largest year among the chat's rows
\* whose month_key ends in the month (substr(month_key, 6, 2)).
_resolve_year(rows, chat_id, month, year) ==
    LET years == {DigitsValue(rows[i].month_key, 1, 4) :
                    i \in {j \in 1..Len(rows) :
                             /\ rows[j].chat_id = chat_id
                             /\ SubSeq(rows[j].month_key, 6, 7)
                                  = ZeroPad(IntToStr(month), 2)}}
    IN  IF IsSome(year) THEN year
        ELSE IF years = {} THEN Nothing
        ELSE Some(CHOOSE y \in years : \A z \in years : z <= y)

_canonical_category(category) ==
    IF category \in {"otro", "unclear"} THEN "unclear" ELSE category

\* CATEGORY_VALUES.get(canonical, (canonical,))
CategoryValues(canonical) ==
    IF canonical = "unclear" THEN {"unclear", "otro"} ELSE {canonical}

\* _expand_categories, as the set the SQL IN (...) tests against; Nothing
\* when there is no category filter.
_expand_categories(categories) ==
    IF ~IsSome(categories) \/ Get(categories) = << >> THEN Nothing
    ELSE Some(UNION {CategoryValues(_canonical_category(Get(categories)[i])) :
                        i \in 1..Len(Get(categories))})

\* _build_filters without the condition chat_id = ?.
_build_filters_all_chats(rows, chat_id, month, year, categories) ==
    {i \in 1..Len(rows) :
        /\ rows[i].month_key
             = ZeroPad(IntToStr(year), 4) \o "-" \o ZeroPad(IntToStr(month), 2)
        /\ \/ ~IsSome(_expand_categories(categories))
           \/ rows[i].categoria \in Get(_expand_categories(categories))}

\* _build_filters: the rows the WHERE clause selects.
_build_filters(rows, chat_id, month, year, categories) ==
    {i \in 1..Len(rows) :
        /\ rows[i].chat_id = chat_id
        /\ rows[i].month_key
             = ZeroPad(IntToStr(year), 4) \o "-" \o ZeroPad(IntToStr(month), 2)
        /\ \/ ~IsSome(_expand_categories(categories))
           \/ rows[i].categoria \in Get(_expand_categories(categories))}

RECURSIVE SumRows(_, _)
\* COALESCE(SUM(monto), 0) over the selected rows.
SumRows(rows, selected) ==
    IF selected = {} THEN 0
    ELSE LET i == CHOOSE i \in selected : TRUE
         IN  rows[i].monto + SumRows(rows, selected \ {i})

_sum_for_where(rows, selected) == SumRows(rows, selected)

_sum_for_category(rows, chat_id, month, year, category) ==
    _sum_for_where(rows, _build_filters(rows, chat_id, month, year, Some(<<category>>)))

\* MAX(monto) over the selected rows, which are not empty.
MaxRows(rows, selected) ==
    rows[CHOOSE i \in selected : \A j \in selected : rows[j].monto <= rows[i].monto].monto

\* A QueryResponse: which of the answers of answer() it is, and the month,
\* year, category filter and amounts that answer reports.
CategoryLabel(canonical) ==
    CASE canonical = "salida" -> "salidas"
      [] canonical = "obligacion" -> "obligaciones"
      [] OTHER -> canonical

RECURSIVE ScopeLabels(_, _)
\* The labels of categories[1..n] in order, each once.
ScopeLabels(categories, n) ==
    IF n = 0 THEN << >>
    ELSE LET before == ScopeLabels(categories, n - 1)
             label == CategoryLabel(_canonical_category(categories[n]))
         IN  IF \E i \in 1..Len(before) : before[i] = label THEN before
             ELSE Append(before, label)

RECURSIVE JoinComma(_, _)
JoinComma(labels, i) ==
    IF i > Len(labels) THEN ""
    ELSE (IF i > 1 THEN ", " ELSE "") \o labels[i] \o JoinComma(labels, i + 1)

_render_scope(categories) ==
    IF ~IsSome(categories) \/ Get(categories) = << >> THEN "all categories"
    ELSE JoinComma(ScopeLabels(Get(categories), Len(Get(categories))), 1)

\* The text of each answer of answer().
ResponseText(kind, month, year, categories, amounts) ==
    LET when == MonthName(Get(month)) \o " " \o IntToStr(Get(year))
        money(i) == format_money(amounts[i], DEFAULT_CURRENCY)
    IN  CASE kind = "no_chat_id" ->
               "I could not identify the chat id for this query."
          [] kind = "need_month" ->
               "I can answer that, but I need the month. "
               \o "Example: 'How much did I spend in febrero 2026?'"
          [] kind = "no_expenses_for_month" ->
               "I could not find expenses for " \o MonthName(Get(month)) \o "."
          [] kind = "max_none" ->
               "No expenses found for " \o _render_scope(categories)
               \o " in " \o when \o "."
          [] kind = "max" ->
               "Maximum expense for " \o _render_scope(categories)
               \o " in " \o when \o ": " \o money(1) \o "."
          [] kind = "sum_breakdown" ->
               "Total expense in " \o when \o " (salidas + obligaciones + unclear): "
               \o "salidas " \o money(1) \o " + obligaciones " \o money(2)
               \o " + unclear " \o money(3) \o " = " \o money(4) \o "."
          [] kind = "sum" ->
               "Total expense for " \o _render_scope(categories)
               \o " in " \o when \o ": " \o money(1) \o "."

QueryResponse(kind, month, year, categories, amounts) ==
    [handled |-> TRUE, kind |-> kind, month |-> month, year |-> year,
     categories |-> categories, amounts |-> amounts,
     text |-> ResponseText(kind, month, year, categories, amounts)]

\* ExpenseQueryService.answer(chat_id, intent), reading the table rows.
answer(rows, chat_id, intent) ==
    LET month == Get(intent.month)
        year == _resolve_year(rows, chat_id, month, intent.year)
        selected == _build_filters(rows, chat_id, month, Get(year), intent.categories)
        salida_total == _sum_for_category(rows, chat_id, month, Get(year), "salida")
        obligacion_total == _sum_for_category(rows, chat_id, month, Get(year), "obligacion")
        unclear_total == _sum_for_category(rows, chat_id, month, Get(year), "unclear")
    IN  IF chat_id = None
        THEN QueryResponse("no_chat_id", Nothing, Nothing, Nothing, << >>)
        ELSE IF ~IsSome(intent.month)
        THEN QueryResponse("need_month", Nothing, Nothing, Nothing, << >>)
        ELSE IF ~IsSome(year)
        THEN QueryResponse("no_expenses_for_month", intent.month, Nothing, Nothing, << >>)
        ELSE IF intent.operation = "max"
        THEN IF selected = {}
             THEN QueryResponse("max_none", intent.month, year, intent.categories, << >>)
             ELSE QueryResponse("max", intent.month, year, intent.categories,
                                <<MaxRows(rows, selected)>>)
        ELSE IF ~IsSome(intent.categories)
        THEN QueryResponse("sum_breakdown", intent.month, year, Nothing,
                           <<salida_total, obligacion_total, unclear_total,
                             salida_total + obligacion_total + unclear_total>>)
        ELSE QueryResponse("sum", intent.month, year, intent.categories,
                           <<_sum_for_where(rows, selected)>>)

(***************************************************************************)
(* backend/polling.py: one update                                          *)
(***************************************************************************)
\* _extract_expense_with_context from the point where retrieval has answered
\* (retrieval is the RetrieveOutcome): the generation call, the neighbor
\* prior, and the error that is reported.
Extraction(expense, similar_examples, extraction_error) ==
    [expense |-> expense, similar_examples |-> similar_examples,
     extraction_error |-> extraction_error]

\* Lines 169-184, with extracted = call_ollama_extract(...).
ExtractionWith(retrieval, similar_examples, extracted, llm) ==
    IF llm.kind = "raise"
    THEN Extraction(Nothing, similar_examples, "llm_error")
    ELSE IF ~IsSome(extracted)
    THEN Extraction(Nothing, similar_examples,
                    IF retrieval.raised # "" THEN "vector_retrieval_error" ELSE "")
    ELSE Extraction(Some(_apply_neighbor_prior(Get(extracted), similar_examples)),
                    similar_examples, "")

\* _extract_expense_with_context giving up when retrieval has failed.
_extract_expense_with_context_aborting(retrieval, text, llm) ==
    IF retrieval.raised # ""
    THEN Extraction(Nothing, << >>, "vector_retrieval_error")
    ELSE ExtractionWith(retrieval, retrieval.items,
                        call_ollama_extract(text, llm), llm)

_extract_expense_with_context(retrieval, text, llm) ==
    ExtractionWith(retrieval,
                   IF retrieval.raised = "" THEN retrieval.items ELSE << >>,
                   call_ollama_extract(text, llm), llm)

_build_expense_reply(expense, persistence_result) ==
    IF persistence_result.status # "stored" THEN "I could not save this expense."
    ELSE IF persistence_result.inserted
    THEN "Expense saved: " \o expense.category \o " "
         \o format_money(expense.amount.v, persistence_result.currency)
         \o " (" \o persistence_result.month_key \o ")."
    ELSE "This message was already processed before."

\* The reply to a message in which no expense was found.
SkipReply(extraction_error) ==
    IF extraction_error = "" THEN "I could not detect an expense from that message."
    ELSE "I had a temporary extraction error. Please try again."

\* The routing that sends every text to extraction.
Route_to_extraction(intent) == "extract"

\* Lines 238-239 and 269: a text with a query intent is answered, any other
\* text goes to extraction.
Route(intent) == IF IsSome(intent) THEN "answer" ELSE "extract"

\* _safe_reply: nothing is sent without a chat_id; a failure to send is logged.
_safe_reply(chat_id, send_ok) ==
    IF chat_id = None THEN "no_chat_id" ELSE IF send_ok THEN "sent" ELSE "send_failed"

(***************************************************************************)
(* The bounds of the model and the inputs of the environment               *)
(***************************************************************************)
\* How many updates Telegram delivers in one behaviour.
MaxUpdates == 2

\* The update ids of the model.
UpdateIds == 1..MaxUpdates

\* How many tasks wait in the executor's queue under direct calls.
MaxQueue == 1

ChatIds == {"chat1", "chat2"}

TEXT_RULE == "Tipo de gasto: salida, gasto: 2500"
TEXT_QUERY == "cuanto gaste en total en febrero 2026"
TEXT_FREE == "pizza 2500"

\* The updates a user of chat1 can cause: a text message, a message without
\* text (a photo) and an update that carries no message (an edited message).
Update(kind, chat_id, text) == [kind |-> kind, chat_id |-> chat_id, text |-> text]

Updates ==
    {Update("no_message", None, ""), Update("non_text", "chat1", ""),
     Update("text", None, TEXT_FREE), Update("text", "chat1", TEXT_RULE),
     Update("text", "chat1", TEXT_QUERY)}

\* The wall clock: the timestamps get_now_iso_and_epoch can return.
Clock == {"2026-02-01T00:00:00"}

ClockMonthYear(now) == [month |-> OccurredMonth(now), year |-> OccurredYear(now)]

\* What the generation service can answer: no answer, an answer that is not
\* JSON, and the JSON objects {"category": "Ocio", "amount": 2500},
\* {"category": "deuda", "amount": 0.004}, {"category": "Ocio", "amount": NaN}.
LlmAnswers ==
    {LlmAnswer("raise", Null, Null),
     LlmAnswer("unparseable", Null, Null),
     LlmAnswer("object", Str("Ocio"), Num(F(2500000))),
     LlmAnswer("object", Str("deuda"), Num(F(4))),
     LlmAnswer("object", Str("Ocio"), Num(NaN))}

Env(db_ok, submit_ok, embed_ok, index_ok) ==
    [db_ok |-> db_ok, submit_ok |-> submit_ok, embed_ok |-> embed_ok,
     index_ok |-> index_ok]

RECURSIVE Orderings(_)
\* Every ordering of a finite set, as sequences: the orders in which the
\* index can rank its entries by distance.
Orderings(S) ==
    IF S = {} THEN {<< >>}
    ELSE UNION {{<<x>> \o o : o \in Orderings(S \ {x})} : x \in S}

(***************************************************************************)
(* State                                                                   *)
(***************************************************************************)
VARIABLES
    inbox,        \* Telegram: the updates sent so far; update_id = position
    tgConfirmed,  \* Telegram: updates below this id are confirmed and dropped
    offsetFile,   \* the text of the offset file ("" = no file)
    offset,       \* run_long_polling's offset: Nothing or Some(int)
    batch,        \* the update ids of `updates` not yet iterated
    pc,           \* where run_long_polling is
    cur,          \* the locals of the loop body for the update in hand
    expenses,     \* the rows of table expenses
    vectors,      \* the entries of the Chroma collection
    vq,           \* the work queue of the single-thread vector executor
    lastUpsert,   \* what the executor's thread did with its last task
    done,         \* update ids whose handling has come to its end
    call,         \* the last direct call of a component and its outcome
    firstResult   \* per update_id, the expense_id of the first direct
                  \* store_expense call that returned a 'stored' result

vars == <<inbox, tgConfirmed, offsetFile, offset, batch, pc, cur, expenses,
          vectors, vq, lastUpsert, done, call, firstResult>>

NoResult == StoreResult("", "", 0, FALSE, "", "")

\* The locals before an update is taken up.
NoCur ==
    [update_id |-> 0, chat_id |-> None, text |-> "", intent |-> Nothing,
     expense |-> Nothing, extraction_error |-> "", occurred_at |-> "",
     result |-> NoResult, reply |-> "", delivery |-> "", raised |-> "",
     calls |-> {}]

NoCall == [op |-> "none"]

NoUpsert == [expense_id |-> 0, failed |-> FALSE, logged |-> FALSE, raised |-> ""]

Init ==
    /\ inbox = << >>
    /\ tgConfirmed = 1
    /\ offsetFile = ""
    /\ offset = Nothing
    /\ batch = << >>
    /\ pc = "poll"
    /\ cur = NoCur
    /\ expenses = << >>
    /\ vectors = {}
    /\ vq = << >>
    /\ lastUpsert = NoUpsert
    /\ done = {}
    /\ call = NoCall
    /\ firstResult = [u \in UpdateIds |-> Nothing]

(***************************************************************************)
(* Telegram and the user                                                   *)
(***************************************************************************)
\* A user action makes Telegram queue a new update.
UserSends ==
    /\ Len(inbox) < MaxUpdates
    /\ \E u \in Updates : inbox' = Append(inbox, u)
    /\ UNCHANGED <<tgConfirmed, offsetFile, offset, batch, pc, cur, expenses,
                   vectors, vq, lastUpsert, done, call, firstResult>>

RECURSIVE Range(_, _)
\* <<a, a+1, ..., b>>
Range(a, b) == IF a > b THEN << >> ELSE <<a>> \o Range(a + 1, b)

Max(a, b) == IF a >= b THEN a ELSE b

(***************************************************************************)
(* run_long_polling                                                        *)
(***************************************************************************)
\* getUpdates answers (lines 203-208): an offset confirms every update below
\* it; the answer holds the unconfirmed updates in id order.
GetUpdates ==
    /\ pc = "poll"
    /\ LET from == IF IsSome(offset) THEN Max(tgConfirmed, Get(offset)) ELSE tgConfirmed
       IN  /\ tgConfirmed' = from
           /\ batch' = Range(from, Len(inbox))
    /\ pc' = "loop"
    /\ UNCHANGED <<inbox, offsetFile, offset, cur, expenses, vectors, vq, lastUpsert,
                   done, call, firstResult>>

\* getUpdates fails (lines 209-216): logged, retried after 3 seconds.
GetUpdatesFails ==
    /\ pc = "poll"
    /\ UNCHANGED vars

\* The for loop takes the next update (lines 218-239): an update without a
\* message is passed over, a message without text goes straight to
\* save_offset, a text is parsed for a query intent and routed.
NextUpdate ==
    /\ pc = "loop"
    /\ IF batch = << >>
       THEN /\ pc' = "poll"
            /\ UNCHANGED <<offset, batch, cur, done>>
       ELSE LET update_id == Head(batch)
                update == inbox[update_id]
            IN  /\ batch' = Tail(batch)
                /\ offset' = Some(update_id + 1)
                /\ IF update.kind = "no_message"
                   THEN /\ pc' = "loop"
                        /\ cur' = NoCur
                        /\ done' = done \cup {update_id}
                   ELSE IF update.kind = "non_text"
                   THEN /\ pc' = "save"
                        /\ cur' = [NoCur EXCEPT !.update_id = update_id,
                                                !.chat_id = update.chat_id]
                        /\ done' = done \cup {update_id}
                   ELSE \E now \in Clock :
                                  LET intent == parse_query_intent(update.text,
                                                                   ClockMonthYear(now))
                                  IN  /\ pc' = Route(intent)
                                      /\ done' = done
                                      /\ cur' = [NoCur EXCEPT
                                                   !.update_id = update_id,
                                                   !.chat_id = update.chat_id,
                                                   !.text = update.text,
                                                   !.intent = intent]
    /\ UNCHANGED <<inbox, tgConfirmed, offsetFile, expenses, vectors, vq, lastUpsert,
                   call, firstResult>>

\* query_service.answer (line 240); a failing SQLite statement raises out of
\* run_long_polling.
AnswerQuery ==
    /\ pc = "answer"
    /\ \E db_ok \in BOOLEAN :
         IF db_ok
         THEN /\ pc' = "reply"
              /\ cur' = [cur EXCEPT
                           !.reply = answer(expenses, cur.chat_id, Get(cur.intent)).text,
                           !.calls = cur.calls \cup {"query"}]
         ELSE /\ pc' = "dead"
              /\ cur' = [cur EXCEPT !.raised = "OperationalError",
                                    !.calls = cur.calls \cup {"query"}]
    /\ UNCHANGED <<inbox, tgConfirmed, offsetFile, offset, batch, expenses, vectors,
                   vq, lastUpsert, done, call, firstResult>>

\* The locals after _extract_expense_with_context has returned x (r is what
\* retrieval gave inside it) and the clock has been read.
Extracted(x, r, now) ==
    /\ cur' = [cur EXCEPT
                 !.expense = x.expense,
                 !.extraction_error = x.extraction_error,
                 !.occurred_at = now,
                 !.reply = IF IsSome(x.expense) THEN ""
                           ELSE SkipReply(x.extraction_error),
                 !.calls = cur.calls
                           \cup (IF r.called THEN {"embed"} ELSE {})
                           \cup {"generate"}]
    /\ pc' = IF IsSome(x.expense) THEN "store" ELSE "reply"

Classified(r, llm, now) ==
    Extracted(_extract_expense_with_context(r, cur.text, llm), r, now)

\* _extract_expense_with_context (line 271): retrieval, the generation
\* call and the neighbor prior; then the timestamp (line 279) and, without
\* an expense, the reply text (lines 310-325).
Extract ==
    /\ pc = "extract"
    /\ \E llm \in LlmAnswers, embed_ok \in BOOLEAN, index_ok \in BOOLEAN, now \in Clock :
         \E order \in Orderings(vectors) :
           Classified(retrieve_similar_expenses(order, cur.chat_id, cur.text,
                                                SIMILAR_EXAMPLES_LIMIT,
                                                Env(TRUE, TRUE, embed_ok, index_ok)),
                      llm, now)
    /\ UNCHANGED <<inbox, tgConfirmed, offsetFile, offset, batch, expenses, vectors,
                   vq, lastUpsert, done, call, firstResult>>

\* persistence.store_expense (lines 293-303) and the reply text (307); what
\* store_expense raises leaves run_long_polling.
Store ==
    /\ pc = "store"
    /\ \E db_ok \in BOOLEAN, submit_ok \in BOOLEAN :
         LET env == Env(db_ok, submit_ok, TRUE, TRUE)
             out == store_expense(expenses, vq,
                                  [update_id |-> cur.update_id,
                                   chat_id |-> cur.chat_id,
                                   category |-> Get(cur.expense).category,
                                   amount |-> Get(cur.expense).amount,
                                   occurred_at |-> cur.occurred_at,
                                   raw_text |-> cur.text,
                                   source |-> "llm"],
                                  env)
         IN  /\ expenses' = out.rows
             /\ vq' = out.queue
             /\ IF out.raised = ""
                THEN /\ pc' = "reply"
                     /\ cur' = [cur EXCEPT
                                  !.result = out.result,
                                  !.reply = _build_expense_reply(Get(cur.expense),
                                                                 out.result),
                                  !.calls = cur.calls \cup {"store"}]
                ELSE /\ pc' = "dead"
                     /\ cur' = [cur EXCEPT !.raised = out.raised,
                                           !.calls = cur.calls \cup {"store"}]
    /\ UNCHANGED <<inbox, tgConfirmed, offsetFile, offset, batch, vectors, lastUpsert,
                   done, call, firstResult>>

\* _safe_reply (lines 242, 304-309, 316-325).
Reply ==
    /\ pc = "reply"
    /\ \E send_ok \in BOOLEAN :
         cur' = [cur EXCEPT !.delivery = _safe_reply(cur.chat_id, send_ok)]
    /\ pc' = "save"
    /\ done' = done \cup {cur.update_id}
    /\ UNCHANGED <<inbox, tgConfirmed, offsetFile, offset, batch, expenses, vectors,
                   vq, lastUpsert, call, firstResult>>

\* save_offset (lines 235, 266, 328): the end of the loop body.
SaveOffset ==
    /\ pc = "save"
    /\ offsetFile' = save_offset(Get(offset))
    /\ pc' = "loop"
    /\ cur' = NoCur
    /\ UNCHANGED <<inbox, tgConfirmed, offset, batch, expenses, vectors, vq, lastUpsert,
                   done, call, firstResult>>

\* The executor's single worker thread runs the oldest submitted task.
\* A worker that takes the task submitted last instead of the oldest one.
VectorWorker_newest_first ==
    /\ vq # << >>
    /\ \E embed_ok \in BOOLEAN, index_ok \in BOOLEAN :
         LET out == _upsert_vector_background(vectors, vq[Len(vq)],
                                              Env(TRUE, TRUE, embed_ok, index_ok))
         IN  /\ vectors' = out.entries
             /\ lastUpsert' = [expense_id |-> vq[Len(vq)].expense_id,
                                failed |-> ~(embed_ok /\ index_ok),
                                logged |-> out.logged, raised |-> out.raised]
    /\ vq' = SubSeq(vq, 1, Len(vq) - 1)
    /\ UNCHANGED <<inbox, tgConfirmed, offsetFile, offset, batch, pc, cur, expenses,
                   done, call, firstResult>>

VectorWorker ==
    /\ vq # << >>
    /\ \E embed_ok \in BOOLEAN, index_ok \in BOOLEAN :
         LET out == _upsert_vector_background(vectors, Head(vq),
                                              Env(TRUE, TRUE, embed_ok, index_ok))
         IN  /\ vectors' = out.entries
             /\ lastUpsert' = [expense_id |-> Head(vq).expense_id,
                                failed |-> ~(embed_ok /\ index_ok),
                                logged |-> out.logged, raised |-> out.raised]
    /\ vq' = Tail(vq)
    /\ UNCHANGED <<inbox, tgConfirmed, offsetFile, offset, batch, pc, cur, expenses,
                   done, call, firstResult>>

\* The process is killed, or has ended on an exception, and is started again:
\* the queue of the executor is gone with the process, the offset is read
\* from the file (line 197), the tables and the collection are on disk.
Restart ==
    /\ offset' = load_offset(offsetFile)
    /\ batch' = << >>
    /\ pc' = "poll"
    /\ cur' = NoCur
    /\ vq' = << >>
    /\ UNCHANGED <<inbox, tgConfirmed, offsetFile, expenses, vectors, lastUpsert, done,
                   call, firstResult>>

(***************************************************************************)
(* Direct calls of ExpensePersistence and ExpenseQueryService              *)
(***************************************************************************)
StoreArgs(chat_id, category, amount, occurred_at, raw_text) ==
    [chat_id |-> chat_id, category |-> category, amount |-> amount,
     occurred_at |-> occurred_at, raw_text |-> raw_text, source |-> "llm"]

\* The arguments store_expense is called with, besides update_id.
StoreArgSets ==
    {StoreArgs("chat1", "salida", F(2500000), "2026-02-01T00:00:00", TEXT_FREE),
     StoreArgs("chat1", "obligacion", F(1500000), "2026-01-31T23:59:00", "alquiler 1500"),
     StoreArgs(None, "salida", F(2500000), "2026-02-01T00:00:00", TEXT_FREE)}

\* store_expense is called.
StoreCall ==
    /\ Len(vq) < MaxQueue
    /\ \E update_id \in UpdateIds, a \in StoreArgSets, db_ok \in BOOLEAN,
          submit_ok \in BOOLEAN :
         LET out == store_expense(expenses, vq,
                                  [update_id |-> update_id, chat_id |-> a.chat_id,
                                   category |-> a.category, amount |-> a.amount,
                                   occurred_at |-> a.occurred_at,
                                   raw_text |-> a.raw_text, source |-> a.source],
                                  Env(db_ok, submit_ok, TRUE, TRUE))
         IN  /\ expenses' = out.rows
             /\ vq' = out.queue
             /\ call' = [op |-> "store_expense", update_id |-> update_id,
                         chat_id |-> a.chat_id, result |-> out.result,
                         raised |-> out.raised, before |-> firstResult[update_id]]
             /\ firstResult' =
                  IF out.raised = "" /\ out.result.status = "stored"
                     /\ ~IsSome(firstResult[update_id])
                  THEN [firstResult EXCEPT ![update_id] = Some(out.result.expense_id)]
                  ELSE firstResult
    /\ UNCHANGED <<inbox, tgConfirmed, offsetFile, offset, batch, pc, cur, vectors,
                   lastUpsert, done>>

\* retrieve_similar_expenses is called.
RetrieveCall ==
    /\ \E order \in Orderings(vectors), chat_id \in ChatIds \cup {None},
          text \in {TEXT_FREE, "  "}, embed_ok \in BOOLEAN, index_ok \in BOOLEAN :
         LET r == retrieve_similar_expenses(order, chat_id, text,
                                            SIMILAR_EXAMPLES_LIMIT,
                                            Env(TRUE, TRUE, embed_ok, index_ok))
         IN  call' = [op |-> "retrieve_similar_expenses", chat_id |-> chat_id,
                      result |-> r.items, raised |-> r.raised]
    /\ UNCHANGED <<inbox, tgConfirmed, offsetFile, offset, batch, pc, cur, expenses,
                   vectors, vq, lastUpsert, done, firstResult>>

\* The messages the intents of the direct calls of answer are parsed from.
QueryTexts ==
    {TEXT_QUERY, "cuanto gaste en salidas en enero", "cual fue mi mayor gasto en febrero"}

\* ExpenseQueryService.answer is called.
AnswerCall ==
    /\ \E text \in QueryTexts, now \in Clock, chat_id \in {"chat1", None} :
         LET intent == Get(parse_query_intent(text, ClockMonthYear(now)))
         IN  call' = [op |-> "answer", chat_id |-> chat_id,
                      result |-> answer(expenses, chat_id, intent).kind,
                      raised |-> ""]
    /\ UNCHANGED <<inbox, tgConfirmed, offsetFile, offset, batch, pc, cur, expenses,
                   vectors, vq, lastUpsert, done, firstResult>>

NextLedger ==
    \/ StoreCall
    \/ VectorWorker
    \/ RetrieveCall
    \/ AnswerCall

SpecLedger == Init /\ [][NextLedger]_vars

(***************************************************************************)
(* Direct calls of parse_query_intent                                      *)
(***************************************************************************)
ParsePrefixes == {"", "cuanto ", "Total: "}

ParseCores ==
    {"Tipo de gasto: salida, gasto: 2500",
     "tipo  de gasto: obligaciones, gasto: 1.500",
     "TIPO DE GASTO: total febrero, gasto: 300",
     "tipo de gasto: cuanto gaste, gasto: 2 mil",
     "cuanto gaste en salidas en febrero",
     "gasto: 2500",
     "tipo de gasto salida",
     "pizza 2500"}

ParseSuffixes == {"", "?", " en febrero?", " este mes", " por categoria"}

\* The texts parse_query_intent is called with.
ParseTexts == {p \o c \o x : p \in ParsePrefixes, c \in ParseCores, x \in ParseSuffixes}

\* parse_query_intent is called.
ParseCall ==
    /\ \E text \in ParseTexts, now \in Clock :
         call' = [op |-> "parse_query_intent", text |-> text,
                  result |-> parse_query_intent(text, ClockMonthYear(now))]
    /\ UNCHANGED <<inbox, tgConfirmed, offsetFile, offset, batch, pc, cur, expenses,
                   vectors, vq, lastUpsert, done, firstResult>>

SpecParse == Init /\ [][ParseCall]_vars

(***************************************************************************)
(* Direct calls of _extract_expense_with_context and _apply_neighbor_prior *)
(***************************************************************************)
\* An entry the collection holds for an expense stored earlier.
IndexEntry(expense_id, chat_id, category, amount, occurred_at, raw_text) ==
    VectorEntry(VectorTask(expense_id,
                           StoreArgs(chat_id, category, amount, occurred_at, raw_text),
                           MonthKey(occurred_at)))

\* The collection under the direct calls of extraction: three obligations of
\* chat1 and a leisure expense of chat2.
ExtractIndex ==
    {IndexEntry(1, "chat1", "obligacion", F(1500000), "2026-01-05T10:00:00",
                "alquiler 1500"),
     IndexEntry(2, "chat1", "obligacion", F(900000), "2026-01-10T10:00:00",
                "expensas 900"),
     IndexEntry(3, "chat1", "obligacion", F(300000), "2026-01-15T10:00:00",
                "luz 300"),
     IndexEntry(4, "chat2", "salida", F(2500000), "2026-01-20T10:00:00",
                "pizza 2500")}

\* _extract_expense_with_context is called: retrieval answers from a
\* collection holding some of ExtractIndex, or raises; the generation service
\* answers llm. A behaviour makes one such call.
ExtractCall ==
    /\ call = NoCall
    /\ \E held \in SUBSET ExtractIndex, llm \in LlmAnswers,
          chat_id \in {"chat1", None}, embed_ok \in BOOLEAN, index_ok \in BOOLEAN :
         \E order \in Orderings(held) :
            LET retrieval == retrieve_similar_expenses(
                                order, chat_id, TEXT_FREE, SIMILAR_EXAMPLES_LIMIT,
                                Env(TRUE, TRUE, embed_ok, index_ok))
            IN  call' = [op |-> "_extract_expense_with_context",
                         text |-> TEXT_FREE, llm |-> llm, retrieval |-> retrieval,
                         result |-> _extract_expense_with_context(retrieval,
                                                                  TEXT_FREE, llm)]
    /\ UNCHANGED <<inbox, tgConfirmed, offsetFile, offset, batch, pc, cur, expenses,
                   vectors, vq, lastUpsert, done, firstResult>>

\* A retrieved example of the given category (None: an entry whose metadata
\* has no category).
Neighbor(category) ==
    [category |-> category, amount |-> 1500000, month_key |-> "2026-01",
     raw_text |-> "alquiler 1500"]

\* How long the lists of neighbors of the direct calls get.
MaxNeighbors == 4

NeighborLists ==
    UNION {[1..n -> {Neighbor(c) : c \in {"salida", "obligacion", "unclear",
                                          "deuda", None}}] : n \in 0..MaxNeighbors}

\* _apply_neighbor_prior is called on an extracted expense, once in a
\* behaviour.
PriorCall ==
    /\ call = NoCall
    /\ \E category \in {"salida", "obligacion", "unclear", "Ocio"},
          similar_examples \in NeighborLists :
         call' = [op |-> "_apply_neighbor_prior",
                  expense |-> Expense(category, F(2500000)),
                  similar_examples |-> similar_examples,
                  result |-> _apply_neighbor_prior(Expense(category, F(2500000)),
                                                   similar_examples)]
    /\ UNCHANGED <<inbox, tgConfirmed, offsetFile, offset, batch, pc, cur, expenses,
                   vectors, vq, lastUpsert, done, firstResult>>

NextExtract ==
    \/ ExtractCall
    \/ PriorCall

SpecExtract == Init /\ [][NextExtract]_vars

(***************************************************************************)
(* Direct calls of normalize_category and normalize_amount                 *)
(***************************************************************************)
\* The arguments normalize_category is called with: every word of its two
\* maps, other texts and null.
CategoryInputs ==
    {Str(w) : w \in LeisureWords \cup ObligationWords}
    \cup {Str("xyz"), Str(""), Str("  Ocio "), Str("DEUDA"), Str("unclear"),
          Str("salidas y ocio"), Str("no  esencial")}
    \cup {Null}

\* normalize_category is called, once in a behaviour.
CategoryCall ==
    /\ call = NoCall
    /\ \E category \in CategoryInputs :
         call' = [op |-> "normalize_category", category |-> category,
                  result |-> normalize_category_any(category).result,
                  raised |-> normalize_category_any(category).raised]
    /\ UNCHANGED <<inbox, tgConfirmed, offsetFile, offset, batch, pc, cur, expenses,
                   vectors, vq, lastUpsert, done, firstResult>>

AmountPrefixes == {"", "-", "$ "}

AmountBodies ==
    {"", "0", "5", "2", "1.500", "1,5", "0.004", "abc",
     "1.234,56", "1,234.56", "1.234,5", "1,234.567", "12,34.5", "1.2,34",
     "1,2.3,4", "1.2,3.4", "0,0.0"}

AmountSuffixes == {"", " mil", "k", " pesos"}

\* The arguments normalize_amount is called with: texts, numbers (0, -5,
\* 0.004, 2500, 1234.567, NaN) and null.
AmountInputs ==
    {Str(p \o b \o x) : p \in AmountPrefixes, b \in AmountBodies, x \in AmountSuffixes}
    \cup {Num(F(0)), Num(F(0 - 5000)), Num(F(4)), Num(F(2500000)),
          Num(F(1234567)), Num(NaN), Null}

\* normalize_amount is called, once in a behaviour.
AmountCall ==
    /\ call = NoCall
    /\ \E amount \in AmountInputs :
         call' = [op |-> "normalize_amount", amount |-> amount,
                  result |-> normalize_amount(amount)]
    /\ UNCHANGED <<inbox, tgConfirmed, offsetFile, offset, batch, pc, cur, expenses,
                   vectors, vq, lastUpsert, done, firstResult>>

NextNormalize ==
    \/ CategoryCall
    \/ AmountCall

SpecNormalize == Init /\ [][NextNormalize]_vars

(***************************************************************************)
(* Reads of a ledger and an index that hold the expenses of two chats      *)
(***************************************************************************)
\* The expenses stored before the reads: of chat1 a leisure expense and an
\* obligation in 2026-02 and a leisure expense in 2025-02, of chat2 an
\* obligation in 2027-02 and a leisure expense in 2026-02.
ReadArgSets ==
    {StoreArgs("chat1", "salida", F(2500000), "2026-02-01T00:00:00", TEXT_FREE),
     StoreArgs("chat1", "obligacion", F(1500000), "2026-02-10T09:30:00",
               "alquiler 1500"),
     StoreArgs("chat1", "salida", F(700000), "2025-02-03T21:00:00", "cine 700"),
     StoreArgs("chat2", "obligacion", F(9000000), "2027-02-05T08:00:00",
               "cuota 9000"),
     StoreArgs("chat2", "salida", F(400000), "2026-02-07T23:00:00", "bar 400")}

\* How many expenses are stored before the reads.
MaxRecords == 3

RECURSIVE StoredState(_, _)
\* The table and the collection after store_expense was called for
\* stored[1..n], with update_id 1..n, each followed by its upsert.
StoredState(stored, n) ==
    IF n = 0 THEN [rows |-> << >>, entries |-> {}]
    ELSE LET before == StoredState(stored, n - 1)
             out == store_expense(before.rows, << >>,
                                  [update_id |-> n, chat_id |-> stored[n].chat_id,
                                   category |-> stored[n].category,
                                   amount |-> stored[n].amount,
                                   occurred_at |-> stored[n].occurred_at,
                                   raw_text |-> stored[n].raw_text,
                                   source |-> stored[n].source],
                                  Env(TRUE, TRUE, TRUE, TRUE))
         IN  [rows |-> out.rows,
              entries |-> _upsert_vector_background(
                              before.entries, Head(out.queue),
                              Env(TRUE, TRUE, TRUE, TRUE)).entries]

StoredStates ==
    {StoredState(stored, Len(stored)) :
        stored \in UNION {[1..n -> ReadArgSets] : n \in 0..MaxRecords}}

\* The state in which the reads are made.
InitRead ==
    /\ inbox = << >>
    /\ tgConfirmed = 1
    /\ offsetFile = ""
    /\ offset = Nothing
    /\ batch = << >>
    /\ pc = "poll"
    /\ cur = NoCur
    /\ \E s \in StoredStates :
         /\ expenses = s.rows
         /\ vectors = s.entries
    /\ vq = << >>
    /\ lastUpsert = NoUpsert
    /\ done = {}
    /\ call = NoCall
    /\ firstResult = [u \in UpdateIds |-> Nothing]

\* The queries of the reads: with and without a year, with a category, a
\* maximum, a month without expenses.
ReadQueryTexts ==
    {TEXT_QUERY, "cuanto gaste en total en febrero",
     "cuanto gaste en salidas en febrero", "cual fue mi mayor gasto en febrero",
     "cuanto gaste en total en marzo"}

ReadQueries ==
    {[text |-> text, intent |-> Get(parse_query_intent(text, ClockMonthYear(now)))] :
        text \in ReadQueryTexts, now \in Clock}

\* ExpenseQueryService.answer is called, once in a behaviour.
AnswerRead ==
    /\ call = NoCall
    /\ \E q \in ReadQueries, chat_id \in ChatIds \cup {None} :
         call' = [op |-> "answer", chat_id |-> chat_id, text |-> q.text,
                  intent |-> q.intent,
                  response |-> answer(expenses, chat_id, q.intent)]
    /\ UNCHANGED <<inbox, tgConfirmed, offsetFile, offset, batch, pc, cur, expenses,
                   vectors, vq, lastUpsert, done, firstResult>>

\* retrieve_similar_expenses is called, once in a behaviour; the index ranks
\* its entries in any order, and the embedding service or the index may fail.
RetrieveRead ==
    /\ call = NoCall
    /\ \E order \in Orderings(vectors), chat_id \in ChatIds \cup {None},
          text \in {TEXT_FREE, "", "   "}, embed_ok \in BOOLEAN,
          index_ok \in BOOLEAN :
         LET r == retrieve_similar_expenses(order, chat_id, text,
                                            SIMILAR_EXAMPLES_LIMIT,
                                            Env(TRUE, TRUE, embed_ok, index_ok))
         IN  call' = [op |-> "retrieve_similar_expenses", chat_id |-> chat_id,
                      text |-> text, embed_ok |-> embed_ok, index_ok |-> index_ok,
                      result |-> r.items, raised |-> r.raised, called |-> r.called]
    /\ UNCHANGED <<inbox, tgConfirmed, offsetFile, offset, batch, pc, cur, expenses,
                   vectors, vq, lastUpsert, done, firstResult>>

NextRead ==
    \/ AnswerRead
    \/ RetrieveRead

SpecRead == InitRead /\ [][NextRead]_vars

(***************************************************************************)
(* Direct calls of the text functions: format_amount, normalize_amount on  *)
(* one separator, extract_explicit_amount, call_ollama_extract             *)
(***************************************************************************)
\* The amounts format_amount is called with, in thousandths: whole amounts,
\* amounts with cents, amounts that round (0.004, 1234.567).
FormatAmounts ==
    {u * 1000 + c : u \in {0, 1, 12, 123, 999, 1000, 1234, 12345, 100000, 1234567},
                    c \in {0, 50, 500, 560, 990, 10, 4, 567}}

\* format_amount is called, once in a behaviour.
FormatCall ==
    /\ call = NoCall
    /\ \E amount \in FormatAmounts :
         call' = [op |-> "format_amount", amount |-> amount,
                  result |-> format_amount(amount)]
    /\ UNCHANGED <<inbox, tgConfirmed, offsetFile, offset, batch, pc, cur, expenses,
                   vectors, vq, lastUpsert, done, firstResult>>

\* The user texts of the direct calls: with one number, with none, with a
\* multiplier token before or after a plain number, with separators, with
\* only a zero, with a multiplier token that is no amount.
ScanTexts ==
    {"pizza 2500", "pizza", "alquiler 2 mil y 50000", "cafe 1.234,56",
     "50000 y 2 mil", "3k", "pague 1,5 mil", "cafe 300 y 4.500", "0",
     "0 mil 500", "2 mil y 3 mil", "vuelto -5"}

\* What the generation service answered to call_ollama_extract: nothing
\* under "response", text without a JSON object, and objects whose category
\* is absent, known or unknown and whose amount is absent, zero or positive.
ExtractAnswers ==
    {LlmAnswer("nonstring", Null, Null), LlmAnswer("unparseable", Null, Null)}
    \cup {LlmAnswer("object", category, amount) :
            category \in {Null, Str("salida"), Str("obligacion"), Str("Ocio")},
            amount \in {Null, Num(F(0)), Num(F(2500000))}}

\* clients.call_ollama_extract(text) called directly, the service answering.
LlmExtractCall ==
    /\ call = NoCall
    /\ \E text \in ScanTexts, llm \in ExtractAnswers :
         call' = [op |-> "call_ollama_extract", text |-> text, answer |-> llm,
                  result |-> call_ollama_extract(text, llm)]
    /\ UNCHANGED <<inbox, tgConfirmed, offsetFile, offset, batch, pc, cur, expenses,
                   vectors, vq, lastUpsert, done, firstResult>>

\* parsing.extract_explicit_amount(text) called directly.
ExplicitCall ==
    /\ call = NoCall
    /\ \E text \in ScanTexts :
         call' = [op |-> "extract_explicit_amount", text |-> text,
                  result |-> extract_explicit_amount(text)]
    /\ UNCHANGED <<inbox, tgConfirmed, offsetFile, offset, batch, pc, cur, expenses,
                   vectors, vq, lastUpsert, done, firstResult>>

\* Amount texts with one separator: up to five digits before it and up to
\* four after it.
SeparatorTexts ==
    {integer_part \o sep \o fraction_part :
        integer_part \in {"", "1", "12", "123", "1234", "12345"},
        sep \in {",", "."},
        fraction_part \in {"", "2", "23", "234", "2346"}}

\* parsing.normalize_amount(amount) called directly on such a text.
SeparatorCall ==
    /\ call = NoCall
    /\ \E amount \in SeparatorTexts :
         call' = [op |-> "normalize_amount", amount |-> Str(amount),
                  result |-> normalize_amount(Str(amount))]
    /\ UNCHANGED <<inbox, tgConfirmed, offsetFile, offset, batch, pc, cur, expenses,
                   vectors, vq, lastUpsert, done, firstResult>>

NextText ==
    \/ FormatCall
    \/ LlmExtractCall
    \/ ExplicitCall
    \/ SeparatorCall

SpecText == Init /\ [][NextText]_vars

Next ==
    \/ UserSends
    \/ GetUpdates
    \/ GetUpdatesFails
    \/ NextUpdate
    \/ AnswerQuery
    \/ Extract
    \/ Store
    \/ Reply
    \/ SaveOffset
    \/ VectorWorker
    \/ Restart

Spec == Init /\ [][Next]_vars

(***************************************************************************)
(* The rule grammar                                                        *)
(***************************************************************************)
\* "tipo de gasto: <category>, gasto: <amount>", whitespace-collapsed and
\* case-insensitive, with a category and an amount that are not empty.
MatchesRuleGrammar(text) ==
    LET n == Lower(collapse_spaces(text))
    IN  \E i \in 1..Len(n), j \in 1..Len(n) :
          /\ i + 14 <= Len(n)
          /\ SubSeq(n, i, i + 14) = "tipo de gasto: "
          /\ j > i + 15
          /\ j + 9 <= Len(n)
          /\ SubSeq(n, j, j + 8) = ", gasto: "

(***************************************************************************)
(* Properties                                                              *)
(***************************************************************************)
\* C1: when store_expense is called with a non-null chat_id and an update_id
\* for which an earlier call returned a stored expense, then, whatever the
\* other arguments, the call that returns reports status 'stored', the
\* expense_id of the first call and inserted = FALSE, and table expenses
\* holds exactly one row of that update_id.
C1_StoreIdempotent ==
    (call.op = "store_expense" /\ call.chat_id # None /\ call.raised = ""
     /\ IsSome(call.before))
    => /\ call.result.status = "stored"
       /\ call.result.expense_id = Get(call.before)
       /\ call.result.inserted = FALSE
       /\ Cardinality(RowsOf(expenses, call.update_id)) = 1

\* A second call for an update_id returned, and its timestamp lay in another
\* month than that of the row it found.
C1_Witness ==
    /\ call.op = "store_expense" /\ call.raised = "" /\ IsSome(call.before)
    /\ \E i \in RowsOf(expenses, call.update_id) :
         expenses[i].month_key # call.result.month_key

\* C2: with updates delivered at least once and the loop restarted at any
\* point from the saved offset, table expenses never holds more than one row
\* for an update_id.
C2_OneRecordPerUpdate ==
    \A u \in UpdateIds : Cardinality(RowsOf(expenses, u)) <= 1

\* An update was handled a second time after a restart: the store found the
\* row of the first handling.
C2_Witness ==
    /\ pc = "reply"
    /\ cur.result.status = "stored"
    /\ ~cur.result.inserted
    /\ cur.result.expense_id \in {expenses[i].id : i \in RowsOf(expenses, cur.update_id)}

\* C3: the offset file is written only at the end of the handling of an
\* update, with that update's id + 1, and every update below the offset in
\* the file has been handled to its end.
C3_MarkerBehindHandled ==
    /\ [](IsSome(load_offset(offsetFile))
          => \A u \in 1..(Get(load_offset(offsetFile)) - 1) : u \in done)
    /\ [][offsetFile' # offsetFile
          => (/\ pc = "save"
              /\ cur.update_id \in done
              /\ offsetFile' = IntToStr(cur.update_id + 1))]_vars

\* The file holds the offset of update 1 while update 2 is being handled
\* after a restart.
C3_Witness ==
    /\ load_offset(offsetFile) = Some(2)
    /\ pc = "store"
    /\ cur.update_id = 2
    /\ done = {1, 2}

\* C4: no failure met while handling a message takes run_long_polling out
\* of its loop.
C4_LoopSurvivesFailures == pc # "dead"

\* C5: a message in the rule grammar is recorded with source 'rule', and the
\* generation service is not called for it.
C5_RuleMessageBypassesLlm ==
    /\ \A i \in 1..Len(expenses) :
         MatchesRuleGrammar(expenses[i].raw_text) => expenses[i].source = "rule"
    /\ MatchesRuleGrammar(cur.text) => "generate" \notin cur.calls

\* C6: parse_query_intent returns None for every text in the rule grammar.
C6_RuleTextIsNoQuery ==
    (call.op = "parse_query_intent" /\ MatchesRuleGrammar(call.text))
    => call.result = Nothing

\* A text in the rule grammar that also asks ("cuanto ... ?") and names a
\* month was parsed.
C6_Witness ==
    /\ call.op = "parse_query_intent"
    /\ MatchesRuleGrammar(call.text)
    /\ Contains(Lower(call.text), "cuanto")
    /\ Contains(Lower(call.text), "febrero")
    /\ EndsWith(call.text, "?")
    /\ call.result = Nothing

\* C7: a message with a query intent is answered by the query service only:
\* it is never at retrieval, extraction or store, and no step of its
\* handling changes table expenses, the collection or the executor's queue.
C7_QueryLeavesLedgerAlone ==
    /\ [](IsSome(cur.intent)
          => (/\ pc \in {"answer", "reply", "save", "dead"}
              /\ cur.calls \subseteq {"query"}
              /\ ~IsSome(cur.expense)))
    /\ [][(IsSome(cur.intent) /\ cur' # cur /\ pc' # "poll")
          => (expenses' = expenses /\ vectors' = vectors /\ vq' = vq)]_vars

\* A query was answered and the answer sent while the table held a row.
C7_Witness ==
    /\ pc = "save"
    /\ IsSome(cur.intent)
    /\ cur.calls = {"query"}
    /\ cur.delivery = "sent"
    /\ Len(expenses) >= 1

\* C8: a row of table expenses stays as it was inserted: no call of
\* store_expense, retrieve_similar_expenses or answer changes or removes it.
C8_RecordsImmutable ==
    [][\A i \in 1..Len(expenses) :
          Len(expenses') >= i /\ expenses'[i] = expenses[i]]_vars

\* With a row in the table, store_expense was called again for its update_id
\* with another timestamp, and the row is as the first call wrote it.
C8_Witness ==
    /\ call.op = "store_expense" /\ call.raised = "" /\ ~call.result.inserted
    /\ call.result.status = "stored"
    /\ Len(expenses) = 2
    /\ \E i \in RowsOf(expenses, call.update_id) :
         expenses[i].month_key # call.result.month_key

\* C9: every row the loop writes has a category of the three and an amount
\* above zero.
C9_RecordsWellFormed ==
    \A i \in 1..Len(expenses) :
        expenses[i].categoria \in Categories /\ expenses[i].monto > 0

\* C10: a failed vector upsert is logged and not raised, the row of its
\* expense stays in the table, the result of store_expense is 'stored'
\* whatever became of the vector task, what ends the loop is never an error
\* of the vector side, and the step of the executor's thread changes nothing
\* of the message-processing path.
C10_UpsertFailureOnlyLogged ==
    /\ [](/\ lastUpsert.failed
             => (/\ lastUpsert.logged
                 /\ lastUpsert.raised = ""
                 /\ \E i \in 1..Len(expenses) : expenses[i].id = lastUpsert.expense_id)
          /\ pc = "dead" => cur.raised \in {"OperationalError", "IntegrityError"}
          /\ cur.result.vector_status # "" => cur.result.status = "stored")
    /\ [][lastUpsert' # lastUpsert
          => (/\ expenses' = expenses
              /\ pc' = pc /\ cur' = cur
              /\ offset' = offset /\ offsetFile' = offsetFile
              /\ batch' = batch)]_vars

\* The upsert of an expense failed while the loop went on to save the offset
\* of the message that expense came from.
C10_Witness ==
    /\ lastUpsert.failed
    /\ pc = "save"
    /\ cur.result.status = "stored"
    /\ cur.result.inserted
    /\ cur.result.expense_id = lastUpsert.expense_id
    /\ cur.delivery = "sent"

\* C11: every entry of the vector index whose id is the id of a ledger record
\* carries that record's category, amount, currency, month key, chat and source.
C11_VectorAgreesWithLedger ==
    \A v \in vectors : \A i \in 1..Len(expenses) :
        expenses[i].id = v.id =>
            /\ v.categoria = expenses[i].categoria
            /\ v.monto = expenses[i].monto
            /\ v.currency = expenses[i].currency
            /\ v.month_key = expenses[i].month_key
            /\ v.chat_id = expenses[i].chat_id
            /\ v.source = expenses[i].source

\* C12: when retrieve_similar_expenses raises, _extract_expense_with_context
\* hands the generation service an empty list of neighbors and returns the
\* expense it returns when retrieval succeeds with no neighbors.
C12_RetrievalFailureIsNoNeighbors ==
    (call.op = "_extract_expense_with_context" /\ call.retrieval.raised # "")
        => /\ call.result.similar_examples = << >>
           /\ call.result.expense =
                _extract_expense_with_context(RetrieveOutcome(<< >>, "", TRUE),
                                              call.text, call.llm).expense
           /\ call.llm.kind # "raise" => call.result.extraction_error # "llm_error"

\* Retrieval raised and an expense came out of the extraction.
C12_Witness ==
    /\ call.op = "_extract_expense_with_context"
    /\ call.retrieval.raised = "EmbeddingError"
    /\ IsSome(call.result.expense)
    /\ Get(call.result.expense).category = "salida"

\* C15: the neighbor prior never turns a category into unclear. The category
\* of the expense _apply_neighbor_prior returns is the category of its input
\* or a category other than unclear that no other category outnumbers among
\* the neighbors considered (the first three, those with a category); the
\* amount is the input's. Under the default thresholds an unclear expense with
\* three neighbors of category obligation becomes an obligation.
C15_PriorNeverToUnclear ==
    call.op = "_apply_neighbor_prior" =>
        LET considered ==
                {i \in 1..Len(call.similar_examples) :
                    /\ i <= 3
                    /\ call.similar_examples[i].category # None}
            Count(c) ==
                Cardinality({i \in considered :
                    normalize_category(call.similar_examples[i].category) = c})
        IN  /\ call.result.amount = call.expense.amount
            /\ \/ call.result.category = call.expense.category
               \/ /\ call.result.category # "unclear"
                  /\ Count(call.result.category) > 0
                  /\ \A d \in Categories : Count(d) <= Count(call.result.category)
            /\ call.result.category = "unclear" => call.expense.category = "unclear"
            /\ ( /\ call.expense.category = "unclear"
                 /\ call.similar_examples
                      = <<Neighbor("obligacion"), Neighbor("obligacion"),
                          Neighbor("obligacion")>> )
               => call.result.category = "obligacion"

\* An unclear expense with three neighbors of category obligation came back
\* as an obligation.
C15_Witness ==
    /\ call.op = "_apply_neighbor_prior"
    /\ call.expense.category = "unclear"
    /\ call.similar_examples
         = <<Neighbor("obligacion"), Neighbor("obligacion"), Neighbor("obligacion")>>
    /\ call.result.category = "obligacion"

\* C16: normalize_category returns salida, obligacion or unclear for every
\* input, a null input included, and never fails; 'ocio' gives salida, 'deuda'
\* obligacion, 'xyz' and null unclear.
C16_CategoryTotal ==
    call.op = "normalize_category" =>
        /\ call.raised = ""
        /\ call.result \in Categories
        /\ call.category = Str("ocio") => call.result = "salida"
        /\ call.category = Str("deuda") => call.result = "obligacion"
        /\ call.category \in {Str("xyz"), Null} => call.result = "unclear"

\* C17: normalize_amount returns no amount or a value greater than zero that
\* is rounded to two decimals; '', '0' and '-5' give no amount and '2 mil'
\* gives 2000.00.
C17_AmountPositiveRounded ==
    call.op = "normalize_amount" =>
        /\ \/ call.result = Nothing
           \/ /\ ~Get(call.result).nan
              /\ Get(call.result).v > 0
              /\ Get(call.result).v % 10 = 0
        /\ call.amount \in {Str(""), Str("0"), Str("-5")} => call.result = Nothing
        /\ call.amount = Str("2 mil") => call.result = Some(F(2000000))

\* The position of the last ',' or '.' of s (0 if it has none).
C18_LastSeparator(s) ==
    IF \E i \in 1..Len(s) : Ch(s, i) \in {",", "."}
    THEN CHOOSE i \in 1..Len(s) :
            /\ Ch(s, i) \in {",", "."}
            /\ \A j \in (i + 1)..Len(s) : Ch(s, j) \notin {",", "."}
    ELSE 0

RECURSIVE C18_Digits(_, _, _)
\* The digits of s[i..j] read as one numeral, the separators among them
\* skipped.
C18_Digits(s, i, j) ==
    IF j < i THEN 0
    ELSE IF Ch(s, j) \in {",", "."} THEN C18_Digits(s, i, j - 1)
    ELSE C18_Digits(s, i, j - 1) * 10 + DigitVal(Ch(s, j))

\* s is made of digits, ',' and '.', holds both separators, the later of
\* them once, with one to three digits after it.
C18_Applies(s) ==
    LET p == C18_LastSeparator(s)
    IN  /\ \A i \in 1..Len(s) : IsDigit(Ch(s, i)) \/ Ch(s, i) \in {",", "."}
        /\ \E i \in 1..Len(s) : Ch(s, i) = ","
        /\ \E i \in 1..Len(s) : Ch(s, i) = "."
        /\ p > 1
        /\ \A i \in 1..(p - 1) : Ch(s, i) # Ch(s, p)
        /\ Len(s) - p \in 1..3

\* The value of s in thousandths with its last separator as the decimal point
\* and the other separator removed.
C18_Value(s) ==
    LET p == C18_LastSeparator(s)
    IN  C18_Digits(s, 1, p - 1) * 1000
        + C18_Digits(s, p + 1, Len(s))
          * (CASE Len(s) - p = 1 -> 100 [] Len(s) - p = 2 -> 10 [] OTHER -> 1)

\* C18: for an amount text that holds both ',' and '.', normalize_amount takes
\* the separator that occurs later for the decimal point and removes every
\* occurrence of the other: the result is that value (times 1000 under a
\* 'mil' or 'k' suffix) rounded to two decimals, no amount when it is not
\* positive. '1.234,56' and '1,234.56' both give 1234.56.
C18_LaterSeparatorIsDecimal ==
    /\ \A p \in AmountPrefixes, b \in AmountBodies, x \in AmountSuffixes :
         ( /\ call.op = "normalize_amount"
           /\ call.amount = Str(p \o b \o x)
           /\ C18_Applies(b) )
         => call.result =
              IF p = "-" \/ C18_Value(b) = 0 THEN Nothing
              ELSE Some(F((((C18_Value(b)
                              * (IF x \in {" mil", "k"} THEN 1000 ELSE 1)) + 5)
                           \div 10) * 10))
    /\ (call.op = "normalize_amount"
        /\ call.amount \in {Str("1.234,56"), Str("1,234.56")})
       => call.result = Some(F(1234560))

\* '1,234.56', whose decimal point is the dot, was normalized to 1234.56.
C18_Witness ==
    /\ call.op = "normalize_amount"
    /\ call.amount = Str("1,234.56")
    /\ call.result = Some(F(1234560))

RECURSIVE C13_OwnRecords(_, _, _)
\* The records of chat_id among rows[1..n], in order, without the ids the
\* ledger gave them.
C13_OwnRecords(rows, n, chat_id) ==
    IF n = 0 THEN << >>
    ELSE IF rows[n].chat_id # chat_id THEN C13_OwnRecords(rows, n - 1, chat_id)
    ELSE Append(C13_OwnRecords(rows, n - 1, chat_id),
                [categoria |-> rows[n].categoria, monto |-> rows[n].monto,
                 currency |-> rows[n].currency, occurred_at |-> rows[n].occurred_at,
                 month_key |-> rows[n].month_key, raw_text |-> rows[n].raw_text,
                 source |-> rows[n].source])

\* C13: what is computed for a chat depends on that chat's data only. Every
\* neighbor retrieve_similar_expenses returns for a chat is an entry of that
\* chat and of no other; the answer of ExpenseQueryService.answer for a chat
\* (its amounts and its text) is the same in every ledger that holds the same
\* records of that chat, whatever the other chats' records.
C13_ChatIsolation ==
    /\ call.op = "retrieve_similar_expenses" =>
         \A i \in 1..Len(call.result) :
            /\ \E v \in vectors :
                 /\ v.chat_id = call.chat_id
                 /\ v.raw_text = call.result[i].raw_text
                 /\ v.categoria = call.result[i].category
                 /\ v.monto = call.result[i].amount
                 /\ v.month_key = call.result[i].month_key
            /\ \A v \in vectors :
                 v.chat_id # call.chat_id => v.raw_text # call.result[i].raw_text
    /\ call.op = "answer" =>
         \A s \in StoredStates :
            C13_OwnRecords(s.rows, Len(s.rows), call.chat_id)
              = C13_OwnRecords(expenses, Len(expenses), call.chat_id)
            => /\ answer(s.rows, call.chat_id, call.intent).amounts
                    = call.response.amounts
               /\ answer(s.rows, call.chat_id, call.intent).text
                    = call.response.text

\* chat1 asked for its total of 2026-02 while chat2 holds an expense of that
\* month, and was told its own 2500.
C13_Witness ==
    /\ call.op = "answer"
    /\ call.chat_id = "chat1"
    /\ call.text = TEXT_QUERY
    /\ \E i \in 1..Len(expenses) :
         expenses[i].chat_id = "chat2" /\ expenses[i].month_key = "2026-02"
    /\ call.response.kind = "sum_breakdown"
    /\ call.response.amounts = <<2500000, 0, 0, 2500000>>

\* C14: retrieve_similar_expenses returns an empty list, raises nothing and
\* calls neither the embedding service nor the index when chat_id is absent
\* or the text is empty or made of whitespace only.
C14_NothingToRetrieve ==
    ( /\ call.op = "retrieve_similar_expenses"
      /\ \/ call.chat_id = None
         \/ \A i \in 1..Len(call.text) : Ch(call.text, i) = " " )
    => /\ call.result = << >>
       /\ call.raised = ""
       /\ ~call.called

\* A whitespace-only text was looked up for chat1, which has entries in the
\* index, while the embedding service was down.
C14_Witness ==
    /\ call.op = "retrieve_similar_expenses"
    /\ call.chat_id = "chat1"
    /\ call.text = "   "
    /\ \E v \in vectors : v.chat_id = "chat1"
    /\ ~call.embed_ok
    /\ call.result = << >>
    /\ call.raised = ""

\* C19: when the intent has a month and no year, answer takes the latest year
\* in which the chat has a record of that month, of whatever category, and
\* reports the amounts of that month of that year; when the chat has no record
\* of that month in any year, it reports that no expenses were found for the
\* month, and no amount.
C19_LatestYearOfChat ==
    ( /\ call.op = "answer"
      /\ call.chat_id # None
      /\ IsSome(call.intent.month)
      /\ ~IsSome(call.intent.year) )
    => LET own == {i \in 1..Len(expenses) :
                     /\ expenses[i].chat_id = call.chat_id
                     /\ OccurredMonth(expenses[i].occurred_at)
                          = Get(call.intent.month)}
           years == {OccurredYear(expenses[i].occurred_at) : i \in own}
           latest == CHOOSE y \in years : \A z \in years : z <= y
           ofLatest == {i \in own : OccurredYear(expenses[i].occurred_at) = latest}
       IN  IF years = {}
           THEN /\ call.response.kind = "no_expenses_for_month"
                /\ call.response.amounts = << >>
                /\ call.response.text
                     = "I could not find expenses for "
                       \o MonthName(Get(call.intent.month)) \o "."
           ELSE /\ call.response.year = Some(latest)
                /\ call.response.kind = "sum_breakdown"
                     => call.response.amounts[4] = SumRows(expenses, ofLatest)
                /\ call.response.kind = "max"
                     => \E i \in ofLatest : call.response.amounts[1] = expenses[i].monto

\* chat1, with expenses in 2025-02 and 2026-02, asked for February while
\* chat2 holds an expense of 2027-02, and was answered for 2026.
C19_Witness ==
    /\ call.op = "answer"
    /\ call.chat_id = "chat1"
    /\ call.text = "cuanto gaste en total en febrero"
    /\ \E i \in 1..Len(expenses) : expenses[i].month_key = "2025-02"
    /\ \E i \in 1..Len(expenses) : expenses[i].month_key = "2027-02"
    /\ call.response.year = Some(2026)
    /\ call.response.amounts = <<2500000, 0, 0, 2500000>>

\* The ledger holds, for chat1, one leisure expense of 2500 and one
\* obligation of 1500, both of 2026-02, and chat1 asked
\* 'cuanto gaste en total en febrero 2026'.
C20_Case ==
    /\ call.op = "answer"
    /\ call.chat_id = "chat1"
    /\ call.text = TEXT_QUERY
    /\ \E i, j \in 1..Len(expenses) :
         /\ i # j
         /\ {k \in 1..Len(expenses) : expenses[k].chat_id = "chat1"} = {i, j}
         /\ expenses[i].categoria = "salida" /\ expenses[i].monto = 2500000
         /\ expenses[i].month_key = "2026-02"
         /\ expenses[j].categoria = "obligacion" /\ expenses[j].monto = 1500000
         /\ expenses[j].month_key = "2026-02"

\* C20 as stated: the answer is the sum breakdown and reports leisure
\* 2.500,00 + obligation 1.500,00 + unclear 0,00 = 4.000,00.
C20_BreakdownWithDecimals ==
    C20_Case =>
        /\ call.response.kind = "sum_breakdown"
        /\ Contains(call.response.text, "2.500,00")
        /\ Contains(call.response.text, "1.500,00")
        /\ Contains(call.response.text, " 0,00")
        /\ Contains(call.response.text, "4.000,00")

\* C20, amended: the answer is the sum breakdown of 2500 + 1500 + 0 = 4000,
\* each amount rendered as money formatting renders a whole amount, without
\* decimals: salidas 2.500 ARS + obligaciones 1.500 ARS + unclear 0 ARS =
\* 4.000 ARS.
C20_BreakdownOfFebruary ==
    C20_Case =>
        /\ call.response.kind = "sum_breakdown"
        /\ call.response.amounts = <<2500000, 1500000, 0, 4000000>>
        /\ call.response.text
             = "Total expense in febrero 2026 (salidas + obligaciones + unclear): "
               \o "salidas 2.500 ARS + obligaciones 1.500 ARS + unclear 0 ARS "
               \o "= 4.000 ARS."

\* The case of C20 with an expense of chat2 in the same month.
C20_Witness ==
    /\ C20_Case
    /\ \E i \in 1..Len(expenses) : expenses[i].chat_id = "chat2"
    /\ call.response.amounts[4] = 4000000

RECURSIVE C21_Digits(_, _, _)
\* The digits of s[i..j] read as one numeral, the dots among them skipped.
C21_Digits(s, i, j) ==
    IF j < i THEN 0
    ELSE IF Ch(s, j) = "." THEN C21_Digits(s, i, j - 1)
    ELSE C21_Digits(s, i, j - 1) * 10 + DigitVal(Ch(s, j))

\* s[1..n] is a numeral grouped in threes by dots: one to three digits, then
\* groups of a dot and three digits, as many groups as the value needs.
C21_Grouped(s, n) ==
    /\ n >= 1
    /\ \A i \in 1..n :
         IF (n - i) % 4 = 3 THEN Ch(s, i) = "." ELSE IsDigit(Ch(s, i))
    /\ n > 1 => Ch(s, 1) # "0"

\* C21: format_amount renders an amount with '.' between the thousands and,
\* unless the amount rounded to two decimals is whole, with ',' and two
\* decimals; a whole amount is rendered without ',00'. 1000 is rendered
\* '1.000' and 1000.5 '1.000,50'.
C21_MoneyFormat ==
    call.op = "format_amount" =>
        LET r == call.result
            hundredths == (call.amount + 5) \div 10
            n == IF hundredths % 100 = 0 THEN Len(r) ELSE Len(r) - 3
        IN  /\ C21_Grouped(r, n)
            /\ C21_Digits(r, 1, n) = hundredths \div 100
            /\ hundredths % 100 # 0 =>
                 /\ Ch(r, n + 1) = ","
                 /\ IsDigit(Ch(r, n + 2)) /\ IsDigit(Ch(r, n + 3))
                 /\ DigitVal(Ch(r, n + 2)) * 10 + DigitVal(Ch(r, n + 3))
                      = hundredths % 100
            /\ call.amount = 1000000 => r = "1.000"
            /\ call.amount = 1000500 => r = "1.000,50"

\* 1234567.56 was rendered with two dots and its cents.
C21_Witness ==
    /\ call.op = "format_amount"
    /\ call.amount = 1234567560
    /\ call.result = "1.234.567,56"

\* The neighbors of the call that vote: those among the first
\* NEIGHBOR_PRIOR_TOP_K that have a category.
C22_Considered ==
    {i \in 1..Len(call.similar_examples) :
        /\ i <= NEIGHBOR_PRIOR_TOP_K
        /\ call.similar_examples[i].category # None}

C22_Count(c) ==
    Cardinality({i \in C22_Considered :
                    normalize_category(call.similar_examples[i].category) = c})

\* The categories with the largest count among the voting neighbors.
C22_Leaders ==
    {c \in Categories :
        C22_Count(c) > 0 /\ \A d \in Categories : C22_Count(d) <= C22_Count(c)}

\* The leader whose first vote comes first in the list.
C22_Dominant ==
    CHOOSE c \in C22_Leaders :
        \E i \in C22_Considered :
            /\ normalize_category(call.similar_examples[i].category) = c
            /\ \A j \in C22_Considered :
                 normalize_category(call.similar_examples[j].category) \in C22_Leaders
                 => i <= j

\* C22: _apply_neighbor_prior, with the dominant category and its ratio taken
\* over the first K neighbors: (1) an unclear category becomes the dominant
\* one when considered >= min_unclear, ratio >= threshold_unclear and the
\* dominant category is not unclear; (2) else a category that differs from
\* the dominant one becomes the dominant one when that is not unclear,
\* considered >= min_override and ratio >= threshold_override; (3) otherwise
\* the category stays. The amount stays in every case.
C22_PriorRules ==
    call.op = "_apply_neighbor_prior" =>
        LET current == normalize_category(call.expense.category)
            considered == Cardinality(C22_Considered)
            votes == C22_Count(C22_Dominant)
            first == /\ current = "unclear"
                     /\ considered >= NEIGHBOR_PRIOR_MIN_CONSIDERED_UNCLEAR
                     /\ votes * 100 >= NEIGHBOR_PRIOR_RATIO_UNCLEAR * considered
                     /\ C22_Dominant # "unclear"
            second == /\ current # C22_Dominant
                      /\ C22_Dominant # "unclear"
                      /\ considered >= NEIGHBOR_PRIOR_MIN_CONSIDERED_OVERRIDE
                      /\ votes * 100 >= NEIGHBOR_PRIOR_RATIO_OVERRIDE * considered
        IN  /\ call.result.amount = call.expense.amount
            /\ call.result.category =
                 IF considered = 0 THEN call.expense.category
                 ELSE IF first THEN C22_Dominant
                 ELSE IF second THEN C22_Dominant
                 ELSE call.expense.category

\* An unclear expense with two voting neighbors, both obligations, became an
\* obligation: the first rule, below the thresholds of the second.
C22_Witness ==
    /\ call.op = "_apply_neighbor_prior"
    /\ call.expense.category = "unclear"
    /\ call.similar_examples = <<Neighbor("obligacion"), Neighbor("deuda")>>
    /\ call.result.category = "obligacion"

\* C29: when several categories share the largest vote count, the dominant
\* category of _neighbor_majority is the one of them that comes first in the
\* neighbor list, and when that one is unclear _apply_neighbor_prior returns
\* the expense as it is.
C29_TieGoesToNearest ==
    (call.op = "_apply_neighbor_prior" /\ Cardinality(C22_Leaders) >= 2) =>
        /\ _neighbor_majority(call.similar_examples).dominant = C22_Dominant
        /\ _neighbor_majority(call.similar_examples).count = C22_Count(C22_Dominant)
        /\ C22_Dominant = "unclear" => call.result = call.expense

\* A tie of an unclear and a leisure neighbor, the unclear one nearest, left
\* an obligation expense as it was.
C29_Witness ==
    /\ call.op = "_apply_neighbor_prior"
    /\ call.expense.category = "obligacion"
    /\ call.similar_examples = <<Neighbor("unclear"), Neighbor("salida")>>
    /\ _neighbor_majority(call.similar_examples).dominant = "unclear"
    /\ call.result = call.expense

\* C23: store_expense puts a vector-indexing task into the executor's queue
\* only in a call that inserted the row: a call for an update_id that is
\* already stored, or one skipped for a missing chat_id, queues nothing.
C23_TaskOnlyOnInsert ==
    [][Len(vq') > Len(vq) =>
         /\ call'.op = "store_expense"
         /\ call'.result.status = "stored"
         /\ call'.result.inserted]_vars

\* C24: once the loop has finished with a delivered update - one without a
\* message, a message without text, a query, a stored or a skipped message -
\* the offset file holds that update's id plus one.
C24_MarkerFollowsEveryUpdate ==
    ( /\ pc = "loop"
      /\ IsSome(offset)
      /\ (Get(offset) - 1) \in done )
    => load_offset(offsetFile) = offset

\* C25: when the generation response holds no JSON object, or holds one whose
\* amount is absent or not positive, and the user text holds an explicit
\* amount, call_ollama_extract returns category unclear with the amount
\* scanned from the text; it returns no expense only when the text holds none.
C25_FallbackCase ==
    /\ call.op = "call_ollama_extract"
    /\ \/ call.answer.kind = "unparseable"
       \/ /\ call.answer.kind = "object"
          /\ ~IsSome(normalize_expense(call.answer.category, call.answer.amount))

C25_FallbackIsUnclear ==
    C25_FallbackCase =>
        IF IsSome(extract_explicit_amount(call.text))
        THEN /\ IsSome(call.result)
             /\ Get(call.result).category = "unclear"
             /\ Get(call.result).amount = Get(extract_explicit_amount(call.text))
        ELSE ~IsSome(call.result)

\* C26: extract_explicit_amount returns the largest amount among all the
\* number-like tokens of the text, a token followed by 'mil' or 'k' counting
\* at its multiplied value, and returns no amount only when no token parses
\* to a positive amount.
C26_Compact == _strip_accents(Lower(collapse_spaces(call.text)))

\* The amount of the token that starts at position i: with its multiplier
\* word when one follows it, without it otherwise.
C26_TokenAmount(s, i) ==
    IF MilNumberEnd(s, i) > 0
    THEN normalize_amount_str(SubSeq(s, i, MilNumberEnd(s, i) - 1))
    ELSE normalize_amount_str(SubSeq(s, i, NumberEnd(s, i) - 1))

\* The positions where a token starts: a digit not preceded by a digit, or
\* by a separator that continues a number.
C26_TokenStarts(s) ==
    {i \in 1..Len(s) : /\ IsDigit(Ch(s, i))
                       /\ i > 1 => ~IsDigit(Ch(s, i - 1))
                       /\ i > 2 => ~(IsSep(Ch(s, i - 1)) /\ IsDigit(Ch(s, i - 2)))}

C26_Amounts(s) ==
    {Get(C26_TokenAmount(s, i)).v : i \in {j \in C26_TokenStarts(s) :
                                              IsSome(C26_TokenAmount(s, j))}}

C26_LargestToken ==
    call.op = "extract_explicit_amount" =>
        LET amounts == C26_Amounts(C26_Compact)
        IN  IF amounts = {} THEN ~IsSome(call.result)
            ELSE /\ IsSome(call.result)
                 /\ Get(call.result).v \in amounts
                 /\ \A a \in amounts : a <= Get(call.result).v

\* C27: in an amount text with a single ',' the comma is the decimal point
\* when at most 2 digits follow it, a thousands separator when exactly 3
\* digits follow it and at most 3 precede it, and the decimal point in every
\* other shape; a text with a single '.' is read by the same rule.
C27_Sep == IF RFind(call.amount.s, ",") > 0 THEN RFind(call.amount.s, ",")
           ELSE RFind(call.amount.s, ".")

C27_Before == C27_Sep - 1

C27_After == Len(call.amount.s) - C27_Sep

C27_Case ==
    /\ call.op = "normalize_amount"
    /\ call.amount.t = "str"
    /\ CountChar(call.amount.s, ",", 1) + CountChar(call.amount.s, ".", 1) = 1
    /\ \A i \in 1..Len(call.amount.s) : i # C27_Sep => IsDigit(Ch(call.amount.s, i))

C27_IsThousands == C27_After = 3 /\ C27_Before <= 3

\* The digits on each side of the separator, as whole numbers.
C27_Whole == DigitsValue(call.amount.s, 1, C27_Sep - 1)

C27_Part == DigitsValue(call.amount.s, C27_Sep + 1, Len(call.amount.s))

\* The amount in thousandths under the rule of the claim; digits after the
\* third decimal place are dropped.
C27_Thousandths ==
    IF C27_IsThousands THEN (C27_Whole * 1000 + C27_Part) * 1000
    ELSE C27_Whole * 1000
         + (CASE C27_After = 0 -> 0
              [] C27_After = 1 -> C27_Part * 100
              [] C27_After = 2 -> C27_Part * 10
              [] C27_After = 3 -> C27_Part
              [] OTHER -> C27_Part \div 10)

C27_SingleSeparator ==
    (C27_Case /\ Len(call.amount.s) > 1) =>
        /\ IsSome(call.result)
        /\ Get(call.result) = F(Round2(C27_Thousandths))

\* normalize_amount('1,234') = 1234.0 and normalize_amount('1.234') = 1234.0
C27_Witness ==
    /\ C27_Case
    /\ call.amount.s \in {"1,234", "1.234"}
    /\ call.result = Some(F(1234000))

\* normalize_amount('1,23') = 1.23 and normalize_amount('1234,234') = 1234.23
C27_WitnessDecimal ==
    /\ C27_Case
    /\ call.amount.s \in {"1,23", "1234,234"}
    /\ call.result \in {Some(F(1230)), Some(F(1234230))}

\* C28: the upserts of the vector index are run by one background worker, one
\* at a time and in the order store_expense submitted them; store_expense
\* returns without waiting for the upsert it submitted, so a slow or failing
\* upsert neither delays nor fails the handling of later messages.
\* A step that runs an upsert takes the oldest queued task and only that one,
\* raises nothing and leaves the loop where it was.
C28_UpsertStep == vectors' # vectors \/ lastUpsert' # lastUpsert

C28_OldestTaskOnly ==
    /\ vq # << >>
    /\ vq' = Tail(vq)
    /\ lastUpsert'.expense_id = Head(vq).expense_id
    /\ lastUpsert'.raised = ""
    /\ vectors' \in {vectors,
                     {v \in vectors : v.id # Head(vq).expense_id}
                       \cup {VectorEntry(Head(vq))}}
    /\ UNCHANGED <<pc, cur, expenses, offsetFile, offset, batch>>

\* A step of the loop through store_expense puts at most one task at the end
\* of the queue and runs no upsert, whatever the queue holds.
C28_StoreStep == pc = "store" /\ pc' \in {"reply", "dead"}

C28_SubmitsAndReturns ==
    /\ UNCHANGED <<vectors, lastUpsert>>
    /\ \/ vq' = vq
       \/ /\ Len(vq') = Len(vq) + 1
          /\ SubSeq(vq', 1, Len(vq)) = vq
          /\ pc' = "reply"
          /\ vq'[Len(vq')].expense_id = cur'.result.expense_id

C28_OneWorkerInOrder ==
    [][/\ C28_UpsertStep => C28_OldestTaskOnly
       /\ C28_StoreStep => C28_SubmitsAndReturns
       /\ Len(vq') > Len(vq) => C28_StoreStep]_vars

\* The loop has stored two messages and is about to save the offset of the
\* second while the upsert of the first has failed and the second is still
\* queued behind it.
C28_Witness ==
    /\ pc = "save"
    /\ Len(expenses) = 2
    /\ lastUpsert.failed
    /\ lastUpsert.expense_id = expenses[1].id
    /\ Len(vq) = 1
    /\ vq[1].expense_id = expenses[2].id

\* C30: when the classification of a text message fails with an error of the
\* generation service, the loop replies with the temporary-error message,
\* writes no ledger record and still saves the offset past that update; from
\* then on neither the running loop nor a restarted one takes that update
\* again, so its expense is never recorded unless the user sends it again.
C30_Failed(c) == c # NoCur /\ c.extraction_error = "llm_error"

\* The reply chosen for the failed message, and nothing stored for it.
C30_TemporaryError(c) ==
    /\ c.reply = "I had a temporary extraction error. Please try again."
    /\ ~IsSome(c.expense)
    /\ "store" \notin c.calls

C30_Marker == load_offset(offsetFile)

\* The loop takes the next update of the batch.
C30_Takes == pc = "loop" /\ batch # << >> /\ batch' = Tail(batch)

C30_FailedUpdateIsPassedOver ==
    [][/\ C30_Failed(cur) =>
            /\ C30_TemporaryError(cur)
            /\ expenses' = expenses
            /\ pc \in {"reply", "save"}
            /\ pc = "reply" /\ pc' \notin {"reply", "poll"} =>
                   pc' = "save" /\ C30_Failed(cur')
            /\ pc = "save" /\ pc' = "loop" =>
                   load_offset(offsetFile') = Some(cur.update_id + 1)
       /\ C30_Failed(cur') => C30_TemporaryError(cur') /\ expenses' = expenses
       /\ IsSome(C30_Marker) =>
            /\ IsSome(load_offset(offsetFile'))
            /\ Get(load_offset(offsetFile')) >= Get(C30_Marker)
            /\ C30_Takes => Head(batch) >= Get(C30_Marker)]_vars

\* The second message failed in the generation service: the reply has gone
\* out, the ledger holds only the first message, the offset is being saved.
C30_Witness ==
    /\ pc = "save"
    /\ C30_Failed(cur)
    /\ cur.update_id = 2
    /\ cur.delivery # ""
    /\ Len(expenses) = 1
    /\ expenses[1].update_id = 1

==============================================================================
